---- MODULE Spec2Model ----
(***************************************************************************)
(* wf-recorder-ui: the recorder session (src/app/state.rs, src/models.rs), *)
(* the two stream reader threads with the capped log, and the discovery    *)
(* probes.  One control thread runs the handlers of RecorderApp; reader    *)
(* threads, probe threads, the child process and the clock are the         *)
(* environment.                                                            *)
(*                                                                         *)
(* Option<T> is a sequence of length 0 (None) or 1 (Some).  A String that  *)
(* holds lines joined by '\n' is the sequence of its lines: append_log_line*)
(* never pushes an empty line (every line starts with its prefix), so the  *)
(* sequence is empty exactly when the String is.                           *)
(***************************************************************************)
EXTENDS Integers, Sequences, FiniteSets, TLC

\* ------------------------------------------------------------------ bounds
\* Sessions (successful spawns) a behaviour may hold.
MaxSessions == 2
\* Lines the child writes in one session, to its two pipes together.
MaxLines == 3
\* The cap of the entry list, 2048 in spawn_reader, scaled down.
LogCap == 2
\* The argument of recent_log_tail, 8 in poll_process, scaled down.
TailLines == 2
\* The clock stops advancing here (unit: 0.1 s, the summary's resolution).
MaxTime == 1
\* Refresh requests per probe type, the one made by new() included.
MaxRefresh == 2

\* ------------------------------------------------------------------ values
None == << >>
Some(v) == <<v>>
IsSome(o) == o /= << >>

Sources == {"Stdout", "Stderr"}
Probes == {"outputs", "windows", "audio_devices"}
OutputFile == "rec.mp4"
\* The channel of the n-th request_*_refresh of a probe type that made one.
Channels == Probes \X (1..MaxRefresh)

ExitCode(c) == [code |-> Some(c), signal |-> None]
ExitSignal(s) == [code |-> None, signal |-> Some(s)]
SIGINT == 2
\* The statuses try_wait can report for a child that ended on its own or on
\* the interrupt of request_graceful_stop.
ChildExitStatuses == {ExitCode(0), ExitSignal(SIGINT)}

VARIABLES
    status,                  \* RecorderApp.status
    last_error,              \* RecorderApp.last_error
    last_recording_summary,  \* RecorderApp.last_recording_summary
    log_entries,             \* RecorderApp.log_entries (under its Mutex)
    log_buffer,              \* RecorderApp.log_buffer (under its Mutex)
    log_dirty,               \* RecorderApp.log_dirty
    log_display,             \* RecorderApp.log_display
    loading,                 \* outputs_loading, windows_loading, audio_devices_loading
    probe_error,             \* outputs_error, windows_error, audio_devices_error
    receiver,                \* outputs_receiver, windows_receiver, audio_devices_receiver
    available,               \* available_outputs, available_windows, available_audio_devices
    ctl,                     \* where the control thread is
    frame,                   \* locals of the handler the control thread is inside
    rpc,                     \* where each reader thread is
    rlocal,                  \* each reader's new_entry and snapshot
    child,                   \* the child process spawned last, as the OS sees it
    pipe,                    \* lines written to / read from the current child's pipes
    now,                     \* Instant::now(), counted from the newest spawn
    chans,                   \* the mpsc channels made by request_*_refresh
    tasks,                   \* probe threads that have not ended
    nreq,                    \* refresh requests that started a task, per probe type
    applied,                 \* per channel: times a result received on it was applied
    fed,                     \* entries pushed since construction, up to LogCap + 1
    joined,                  \* reader threads of the session joined by finish()
    dir_created,             \* create_dir_all has made the output directory
    call,                    \* a function of config.rs or discovery.rs with its arguments
    ret,                     \* what that call returned, once it has
    last_op                  \* the control thread's last step and its outcome

vars == <<status, last_error, last_recording_summary, log_entries, log_buffer,
          log_dirty, log_display, loading, probe_error, receiver, available,
          ctl, frame, rpc, rlocal, child, pipe, now, chans, tasks, nreq,
          applied, fed, joined, dir_created, call, ret, last_op>>

sessionVars == <<status, last_error, last_recording_summary>>
logVars == <<log_entries, log_buffer, log_dirty, log_display>>
probeVars == <<loading, probe_error, receiver, available>>
readerVars == <<rpc, rlocal, fed>>
osVars == <<child, pipe, now>>
taskVars == <<chans, tasks, nreq, applied>>

Idle == [tag |-> "Idle"]
Running(process) == [tag |-> "Running", process |-> process]
is_running(s) == s.tag = "Running"
NoFrame == [op |-> "none"]
NoLocal == [new_entry |-> None, snapshot |-> None]
\* No child yet; a spawned one is "running", then "exited" (a zombie whose
\* status waits to be collected), then "reaped".  id counts the spawns;
\* signalled and killed tell whether SIGINT / SIGKILL was sent to it.
NoChild == [id |-> 0, state |-> "none", signalled |-> FALSE, killed |-> FALSE]

\* ------------------------------------------------------------ pure helpers
Min(a, b) == IF a < b THEN a ELSE b

\* append_log_line: a separator unless the buffer is empty, the prefix, the line.
Prefix(source) == IF source = "Stdout" THEN "[stdout] " ELSE "[stderr] "
append_log_line_Prepend(buffer, entry) ==
    <<<<Prefix(entry.source), entry.line>>>> \o buffer
append_log_line(buffer, entry) == Append(buffer, <<Prefix(entry.source), entry.line>>)

RECURSIVE RenderFrom(_, _)
\* spawn_reader's rebuild loop: text.clear(), then append_log_line per entry.
RenderFrom(text, entries) ==
    IF entries = << >> THEN text
    ELSE RenderFrom(append_log_line(text, Head(entries)), Tail(entries))
Rebuild(entries) == RenderFrom(<< >>, entries)

Reverse(s) == [i \in 1..Len(s) |-> s[Len(s) + 1 - i]]
Take(s, n) == SubSeq(s, 1, Min(n, Len(s)))
\* recent_log_tail: None on an empty buffer, else lines().rev().take(n), reversed.
recent_log_tail_FromHead(buffer, lines) ==
    IF buffer = << >> THEN None
    ELSE Some(Take(buffer, lines))
recent_log_tail(buffer, lines) ==
    IF buffer = << >> THEN None
    ELSE Some(Reverse(Take(Reverse(buffer), lines)))

signal_name(signal) ==
    CASE signal = 2 -> "SIGINT"
      [] signal = 15 -> "SIGTERM"
      [] signal = 9 -> "SIGKILL"
      [] signal = 1 -> "SIGHUP"
      [] signal = 3 -> "SIGQUIT"
      [] signal = 6 -> "SIGABRT"
      [] signal = 14 -> "SIGALRM"
      [] OTHER -> "unknown"

\* format_exit_status (unix build).
format_exit_status(st) ==
    IF IsSome(st.code) THEN <<", exit code ", st.code[1]>>
    ELSE IF IsSome(st.signal)
         THEN <<", terminated by signal ", st.signal[1], signal_name(st.signal[1])>>
         ELSE <<", terminated by signal">>

\* ------------------------------------------------------------------ strings
\* A String or &str is the sequence of its characters, each a one-character
\* string.  The byte of a character, for the characters compared below.
Byte(ch) ==
    CASE ch = " " -> 32 [] ch = "-" -> 45
      [] ch = "A" -> 65 [] ch = "B" -> 66 [] ch = "C" -> 67
      [] ch = "a" -> 97 [] ch = "b" -> 98 [] ch = "c" -> 99

RECURSIVE StrLess(_, _)
\* a.cmp(b) == Ordering::Less for strings: bytewise, a proper prefix is less.
StrLess(a, b) ==
    IF b = << >> THEN FALSE
    ELSE IF a = << >> THEN TRUE
    ELSE IF Head(a) = Head(b) THEN StrLess(Tail(a), Tail(b))
    ELSE Byte(Head(a)) < Byte(Head(b))

UpperCase == <<"A", "B", "C", "D", "E", "F", "G", "H", "I", "J", "K", "L", "M",
               "N", "O", "P", "Q", "R", "S", "T", "U", "V", "W", "X", "Y", "Z">>
LowerCase == <<"a", "b", "c", "d", "e", "f", "g", "h", "i", "j", "k", "l", "m",
               "n", "o", "p", "q", "r", "s", "t", "u", "v", "w", "x", "y", "z">>
\* str::to_ascii_lowercase.
to_ascii_lowercase(s) ==
    [i \in 1..Len(s) |->
        IF \E k \in 1..Len(UpperCase) : UpperCase[k] = s[i]
        THEN LowerCase[CHOOSE k \in 1..Len(UpperCase) : UpperCase[k] = s[i]]
        ELSE s[i]]
\* str::contains(pattern).
contains(s, pattern) ==
    \E i \in 0..(Len(s) - Len(pattern)) : SubSeq(s, i + 1, i + Len(pattern)) = pattern

\* ------------------------------------------------------------- discovery.rs
\* Result<T, String>: Ok(list) or Err(message).
Ok(v) == [ok |-> TRUE, value |-> v]
Err(e) == [ok |-> FALSE, value |-> e]

\* Entries a backend reports in one answer, at most.
MaxReported == 2
SeqsUpTo(S, n) == UNION {[1..k -> S] : k \in 0..n}

\* The nodes of a sway tree in the order collect_sway_windows visits them
\* (children before their parent): a container, a window without size, and
\* two windows.
SwayNodes ==
    {[window |-> None, x |-> 0, y |-> 0, width |-> 800, height |-> 600],
     [window |-> Some(7), x |-> 0, y |-> 0, width |-> 0, height |-> 600],
     [window |-> Some(7), x |-> 0, y |-> 0, width |-> 800, height |-> 600],
     [window |-> Some(8), x |-> 10, y |-> 0, width |-> 800, height |-> 600]}
\* What running `swaymsg -t get_tree` can give.
SwayOutputs ==
    {[tag |-> t, nodes |-> << >>] : t \in {"not_available", "exited", "unparsable"}}
        \cup {[tag |-> "tree", nodes |-> n] : n \in SeqsUpTo(SwayNodes, MaxReported)}

\* collect_sway_windows: a node is pushed when it has a non-zero window id
\* and a rect of positive width and height.
IsSwayWindow(node) ==
    /\ IsSome(node.window)
    /\ node.window[1] /= 0
    /\ ~(node.width <= 0 \/ node.height <= 0)
collect_sway_windows(nodes) ==
    LET kept == SelectSeq(nodes, IsSwayWindow)
    IN [i \in 1..Len(kept) |->
           [id |-> ToString(kept[i].window[1]),
            label |-> "window - Untitled",
            geometry |-> <<kept[i].x, ",", kept[i].y, " ",
                           kept[i].width, "x", kept[i].height>>]]

detect_sway_windows(out) ==
    CASE out.tag = "not_available" -> Err("swaymsg not available")
      [] out.tag = "exited" -> Err("swaymsg exited with")
      [] out.tag = "unparsable" -> Err("Failed to parse sway tree")
      [] OTHER -> Ok(collect_sway_windows(out.nodes))

\* The clients of `hyprctl clients -j`: one not mapped, one without size, one
\* without an address, one complete.
HyprClients ==
    {[mapped |-> FALSE, address |-> Some("0x1"), at |-> <<0, 0>>, size |-> <<800, 600>>],
     [mapped |-> TRUE, address |-> Some("0x1"), at |-> <<0, 0>>, size |-> <<0, 0>>],
     [mapped |-> TRUE, address |-> None, at |-> <<0, 0>>, size |-> <<800, 600>>],
     [mapped |-> TRUE, address |-> Some("0x1"), at |-> <<0, 0>>, size |-> <<800, 600>>]}
HyprOutputs ==
    {[tag |-> t, clients |-> << >>] :
        t \in {"not_available", "exited", "unparsable", "not_array"}}
        \cup {[tag |-> "clients", clients |-> n] : n \in SeqsUpTo(HyprClients, MaxReported)}

IsHyprWindow(client) ==
    /\ client.mapped
    /\ ~(client.size[1] <= 0 \/ client.size[2] <= 0)
detect_hypr_windows(out) ==
    CASE out.tag = "not_available" -> Err("hyprctl not available")
      [] out.tag = "exited" -> Err("hyprctl exited with")
      [] out.tag = "unparsable" -> Err("Failed to parse hyprctl output")
      [] out.tag = "not_array" -> Err("Unexpected hyprctl output")
      [] OTHER ->
           LET kept == SelectSeq(out.clients, IsHyprWindow)
           IN Ok([i \in 1..Len(kept) |->
                     [id |-> IF IsSome(kept[i].address) THEN kept[i].address[1] ELSE "",
                      label |-> "window - Untitled",
                      geometry |-> <<kept[i].at[1], ",", kept[i].at[2], " ",
                                     kept[i].size[1], "x", kept[i].size[2]>>]])

\* Lines `wf-recorder --list-output` prints, at most.
MaxListed == 3
\* What the loop of detect_outputs parses out of a line: a non-empty name and
\* a description, both trimmed.
ParsedOutputs ==
    {[name |-> <<"A">>, description |-> <<"a">>],
     [name |-> <<"A", " ", "-", " ", "b">>, description |-> << >>],
     [name |-> <<"A">>, description |-> <<"c">>],
     [name |-> <<"B">>, description |-> << >>]}
ListOutputs ==
    {[tag |-> t, parsed |-> << >>] : t \in {"not_available", "exited"}}
        \cup {[tag |-> "listed", parsed |-> n] : n \in SeqsUpTo(ParsedOutputs, MaxListed)}

\* The OutputChoice pushed for a parsed line.
OutputChoice(parsed) ==
    [value |-> parsed.name,
     label |-> IF parsed.description = << >> THEN parsed.name
               ELSE parsed.name \o <<" ", "-", " ">> \o parsed.description]

RECURSIVE InsertByLabel(_, _)
InsertByLabel(sorted, entry) ==
    IF sorted = << >> THEN <<entry>>
    ELSE IF StrLess(entry.label, Head(sorted).label) THEN <<entry>> \o sorted
    ELSE <<Head(sorted)>> \o InsertByLabel(Tail(sorted), entry)
RECURSIVE sort_by_label(_)
\* outputs.sort_by(|a, b| a.label.cmp(&b.label)): a stable sort.
sort_by_label(outputs) ==
    IF outputs = << >> THEN << >>
    ELSE InsertByLabel(sort_by_label(SubSeq(outputs, 1, Len(outputs) - 1)),
                       outputs[Len(outputs)])
RECURSIVE dedup_by_value(_)
\* outputs.dedup_by(|a, b| a.value == b.value): an element is removed when
\* the element kept just before it has the same value.
dedup_by_value(outputs) ==
    IF Len(outputs) <= 1 THEN outputs
    ELSE LET kept == dedup_by_value(SubSeq(outputs, 1, Len(outputs) - 1))
             next == outputs[Len(outputs)]
         IN IF next.value = kept[Len(kept)].value THEN kept ELSE Append(kept, next)

\* detect_outputs, given what the command answered and the loop parsed.
detect_outputs(out) ==
    CASE out.tag = "not_available" -> Err("Failed to run wf-recorder --list-output")
      [] out.tag = "exited" -> Err("wf-recorder --list-output exited with")
      [] OTHER ->
           Ok(dedup_by_value(sort_by_label(
                 [i \in 1..Len(out.parsed) |-> OutputChoice(out.parsed[i])])))

\* Names and descriptions `pactl list sources` reports.
AudioTexts ==
    {<<"U", "S", "B">>,
     <<"M", "o", "n", "i", "t", "o", "r">>,
     <<"S", "p", "e", "a", "k", "e", "r">>,
     <<"M", "i", "c", "r", "o", "p", "h", "o", "n", "e">>,
     <<"a", "l", "s", "a", "_", "i", "n", "p", "u", "t">>}
monitor == <<"m", "o", "n", "i", "t", "o", "r">>
speaker == <<"s", "p", "e", "a", "k", "e", "r">>
microphone == <<"m", "i", "c", "r", "o", "p", "h", "o", "n", "e">>
input == <<"i", "n", "p", "u", "t">>

classify_audio_device(name, description) ==
    LET name_lower == to_ascii_lowercase(name)
        desc_lower == to_ascii_lowercase(description)
    IN IF \/ contains(name_lower, monitor)
          \/ contains(desc_lower, monitor)
          \/ contains(desc_lower, speaker)
       THEN "Speaker"
       ELSE IF \/ contains(name_lower, microphone)
               \/ contains(name_lower, input)
               \/ contains(desc_lower, microphone)
            THEN "Microphone"
            ELSE "Other"

\* ---------------------------------------------------------------- config.rs
\* The argument literals of build_command_args, as Strings.
Flag ==
    [audio |-> <<"-", "-", "a", "u", "d", "i", "o">>,
     audio_backend |-> <<"-", "-", "a", "u", "d", "i", "o", "-", "b", "a", "c", "k", "e", "n", "d">>,
     audio_codec |-> <<"-", "-", "a", "u", "d", "i", "o", "-", "c", "o", "d", "e", "c">>,
     audio_codec_param |-> <<"-", "-", "a", "u", "d", "i", "o", "-", "c", "o", "d", "e", "c", "-", "p", "a", "r", "a", "m">>,
     sample_rate |-> <<"-", "-", "s", "a", "m", "p", "l", "e", "-", "r", "a", "t", "e">>,
     sample_format |-> <<"-", "-", "s", "a", "m", "p", "l", "e", "-", "f", "o", "r", "m", "a", "t">>,
     codec |-> <<"-", "-", "c", "o", "d", "e", "c">>,
     codec_param |-> <<"-", "-", "c", "o", "d", "e", "c", "-", "p", "a", "r", "a", "m">>,
     framerate |-> <<"-", "-", "f", "r", "a", "m", "e", "r", "a", "t", "e">>,
     bframes |-> <<"-", "-", "b", "f", "r", "a", "m", "e", "s">>,
     buffrate |-> <<"-", "-", "b", "u", "f", "f", "r", "a", "t", "e">>,
     device |-> <<"-", "-", "d", "e", "v", "i", "c", "e">>,
     pixel_format |-> <<"-", "-", "p", "i", "x", "e", "l", "-", "f", "o", "r", "m", "a", "t">>,
     muxer |-> <<"-", "-", "m", "u", "x", "e", "r">>,
     filter |-> <<"-", "-", "f", "i", "l", "t", "e", "r">>,
     output |-> <<"-", "-", "o", "u", "t", "p", "u", "t">>,
     geometry |-> <<"-", "-", "g", "e", "o", "m", "e", "t", "r", "y">>,
     file |-> <<"-", "-", "f", "i", "l", "e">>,
     no_dmabuf |-> <<"-", "-", "n", "o", "-", "d", "m", "a", "b", "u", "f">>,
     no_damage |-> <<"-", "-", "n", "o", "-", "d", "a", "m", "a", "g", "e">>,
     log |-> <<"-", "-", "l", "o", "g">>,
     overwrite |-> <<"-", "-", "o", "v", "e", "r", "w", "r", "i", "t", "e">>]

\* char::is_whitespace, for the characters that occur.
is_whitespace(ch) == ch = " "
RECURSIVE trim_start(_)
trim_start(s) ==
    IF s /= << >> /\ is_whitespace(Head(s)) THEN trim_start(Tail(s)) ELSE s
RECURSIVE trim_end(_)
trim_end(s) ==
    IF s /= << >> /\ is_whitespace(s[Len(s)])
    THEN trim_end(SubSeq(s, 1, Len(s) - 1)) ELSE s
\* str::trim.
trim(s) == trim_end(trim_start(s))

starts_with(s, prefix) ==
    Len(s) >= Len(prefix) /\ SubSeq(s, 1, Len(prefix)) = prefix
RECURSIVE replace(_, _, _)
\* str::replace(from, to): every match, found left to right without overlap.
replace(s, from, to) ==
    IF s = << >> THEN << >>
    ELSE IF starts_with(s, from)
         THEN to \o replace(SubSeq(s, Len(from) + 1, Len(s)), from, to)
         ELSE <<Head(s)>> \o replace(Tail(s), from, to)
\* str::find(char): the byte index of the first occurrence.
find(s, ch) ==
    IF \E i \in 1..Len(s) : s[i] = ch
    THEN Some((CHOOSE i \in 1..Len(s) : s[i] = ch /\ \A j \in 1..(i - 1) : s[j] /= ch) - 1)
    ELSE None

\* PathBuf::from(home) followed by push(rest), as a string: an absolute rest
\* replaces the path, else a separator is put in unless one is there.
PathPush(home, rest) ==
    IF starts_with(rest, <<"/">>) THEN rest
    ELSE IF home = << >> \/ home[Len(home)] = "/" THEN home \o rest
    ELSE home \o <<"/">> \o rest
\* expand_home, with what env::var("HOME") gives (None when it is not set).
expand_home(path, home) ==
    IF starts_with(path, <<"~", "/">>)
    THEN IF IsSome(home) THEN PathPush(home[1], SubSeq(path, 3, Len(path))) ELSE path
    ELSE IF path = <<"~">> /\ IsSome(home) THEN home[1]
    ELSE path

\* A resolver that takes the timestamp from the clock whatever the override.
resolve_output_file_with_timestamp_ClockOnly(config, timestamp_override, clock, home) ==
    LET template == trim(config.file_template)
        format == IF trim(config.file_format) = << >> THEN <<"m", "p", "4">>
                  ELSE trim(config.file_format)
        resolved == replace(replace(template, <<"$", "t", "i", "m", "e", "s", "t", "a", "m", "p">>, clock),
                            <<"$", "f", "o", "r", "m", "a", "t">>, format)
    IN IF template = << >> THEN Err(<<"Please provide a file template">>)
       ELSE IF IsSome(find(resolved, "$"))
            THEN Err(<<"Unknown placeholder starting at position", find(resolved, "$")[1]>>)
            ELSE Ok(expand_home(resolved, home))

\* RecorderConfig::resolve_output_file_with_timestamp; clock is what
\* Local::now().format(..) gives when it is called, home the HOME variable.
resolve_output_file_with_timestamp(config, timestamp_override, clock, home) ==
    LET template == trim(config.file_template)
        timestamp == IF IsSome(timestamp_override) THEN timestamp_override[1] ELSE clock
        format == IF trim(config.file_format) = << >> THEN <<"m", "p", "4">>
                  ELSE trim(config.file_format)
        resolved == replace(replace(template, <<"$", "t", "i", "m", "e", "s", "t", "a", "m", "p">>, timestamp),
                            <<"$", "f", "o", "r", "m", "a", "t">>, format)
    IN IF template = << >> THEN Err(<<"Please provide a file template">>)
       ELSE IF IsSome(find(resolved, "$"))
            THEN Err(<<"Unknown placeholder starting at position", find(resolved, "$")[1]>>)
            ELSE Ok(expand_home(resolved, home))

\* A push_arg that pushes the flag and the trimmed value whatever the value.
push_arg_Always(args, flag, value) == args \o <<flag, trim(value)>>

\* push_arg: the flag and the trimmed value, when that is not empty.
push_arg(args, flag, value) ==
    IF trim(value) /= << >> THEN args \o <<flag, trim(value)>> ELSE args

\* ParamEntry::format.
ParamEntry_format(entry) ==
    LET key == trim(entry.key)
        value == trim(entry.value)
    IN IF key = << >> /\ value = << >> THEN None
       ELSE IF key = << >> THEN Some(value)
       ELSE IF value = << >> THEN Some(key)
       ELSE Some(key \o <<"=">> \o value)
RECURSIVE push_params(_, _, _)
\* The loops over audio_codec_params and codec_params.
push_params(args, flag, entries) ==
    IF entries = << >> THEN args
    ELSE push_params(IF IsSome(ParamEntry_format(Head(entries)))
                     THEN args \o <<flag, ParamEntry_format(Head(entries))[1]>>
                     ELSE args,
                     flag, Tail(entries))

\* The device chosen for an audio entry: the selected one, else the manual
\* one, else none.
FirstNonEmpty(selected, manual) ==
    IF trim(selected) /= << >> THEN trim(selected)
    ELSE IF trim(manual) /= << >> THEN trim(manual)
    ELSE << >>
\* Audio targets that take one entry for mode Both as well.
audio_targets_OneForBoth(config) ==
    IF config.audio_mode = "None" THEN << >>
    ELSE <<FirstNonEmpty(config.selected_speaker_device, config.audio_device)>>

audio_targets(config) ==
    CASE config.audio_mode = "None" -> << >>
      [] config.audio_mode = "System" ->
           <<FirstNonEmpty(config.selected_speaker_device, config.audio_device)>>
      [] config.audio_mode = "Microphone" ->
           <<FirstNonEmpty(config.selected_microphone_device, config.audio_device)>>
      [] OTHER ->
           <<FirstNonEmpty(config.selected_speaker_device, config.audio_device),
             FirstNonEmpty(config.selected_microphone_device, << >>)>>
\* An audio block that repeats the settings behind each device.
AudioArgs_PerDevice(config) ==
    LET targets == audio_targets(config)
        settings(device) ==
            push_arg(push_arg(
                push_params(
                    push_arg(push_arg(<<device>>, Flag.audio_backend, config.audio_backend),
                             Flag.audio_codec, config.audio_codec),
                    Flag.audio_codec_param, config.audio_codec_params),
                Flag.sample_rate, config.sample_rate),
                Flag.sample_format, config.sample_format)
        devices == [i \in 1..Len(targets) |->
                       IF trim(targets[i]) = << >> THEN Flag.audio
                       ELSE Flag.audio \o <<"=">> \o trim(targets[i])]
    IN IF Len(targets) = 2 THEN settings(devices[1]) \o settings(devices[2])
       ELSE IF Len(targets) = 1 THEN settings(devices[1])
       ELSE << >>

\* The block of build_command_args that runs when audio_targets is not empty.
AudioArgs(config) ==
    LET targets == audio_targets(config)
        devices == [i \in 1..Len(targets) |->
                       IF trim(targets[i]) = << >> THEN Flag.audio
                       ELSE Flag.audio \o <<"=">> \o trim(targets[i])]
    IN IF targets = << >> THEN << >>
       ELSE push_arg(push_arg(
                push_params(
                    push_arg(push_arg(devices, Flag.audio_backend, config.audio_backend),
                             Flag.audio_codec, config.audio_codec),
                    Flag.audio_codec_param, config.audio_codec_params),
                Flag.sample_rate, config.sample_rate),
                Flag.sample_format, config.sample_format)
\* --codec up to --filter.
VideoArgs(args, config) ==
    push_arg(push_arg(push_arg(push_arg(push_arg(push_arg(push_arg(
        push_params(push_arg(args, Flag.codec, config.codec),
                    Flag.codec_param, config.codec_params),
        Flag.framerate, config.framerate),
        Flag.bframes, config.bframes),
        Flag.buffrate, config.buffrate),
        Flag.device, config.encoding_device),
        Flag.pixel_format, config.pixel_format),
        Flag.muxer, config.muxer),
        Flag.filter, config.filter)
\* Trailing flags that come whatever the switches are.
SwitchArgs_All(config) ==
    <<Flag.no_dmabuf, Flag.no_damage, Flag.log, Flag.overwrite>>

\* The four trailing flags.
SwitchArgs(config) ==
    (IF config.no_dmabuf THEN <<Flag.no_dmabuf>> ELSE << >>)
        \o (IF config.no_damage THEN <<Flag.no_damage>> ELSE << >>)
        \o (IF config.log_enabled THEN <<Flag.log>> ELSE << >>)
        \o (IF config.overwrite THEN <<Flag.overwrite>> ELSE << >>)

\* A build_command_args that resolves the output file before it looks at the
\* capture mode.
build_command_args_ResolveFirst(config, timestamp_override, clock, home) ==
    LET output_file ==
            resolve_output_file_with_timestamp(config, timestamp_override, clock, home)
        geometry == IF config.capture_mode = "Window"
                    THEN trim(config.selected_window_geometry)
                    ELSE trim(config.area_geometry)
    IN IF output_file.ok
       THEN Ok(<<VideoArgs(AudioArgs(config), config)
                    \o <<Flag.geometry, geometry, Flag.file, output_file.value>>
                    \o SwitchArgs(config),
                 output_file.value>>)
       ELSE output_file

\* RecorderConfig::build_command_args: Ok(<<args, output_file>>) or Err.
build_command_args(config, timestamp_override, clock, home) ==
    LET args == VideoArgs(AudioArgs(config), config)
        geometry == IF config.capture_mode = "Window"
                    THEN trim(config.selected_window_geometry)
                    ELSE trim(config.area_geometry)
        output_file ==
            resolve_output_file_with_timestamp(config, timestamp_override, clock, home)
    IN IF config.capture_mode = "Window" /\ geometry = << >>
       THEN Err(<<"Select a window from the list before starting the recording.">>)
       ELSE IF config.capture_mode = "Area" /\ geometry = << >>
       THEN Err(<<"Enter an area geometry (e.g. 100,200 1920x1080) or use the selector.">>)
       ELSE IF ~output_file.ok THEN output_file
       ELSE Ok(<<(IF config.capture_mode = "Screen"
                  THEN push_arg(args, Flag.output, config.output)
                  ELSE args \o <<Flag.geometry, geometry>>)
                     \o <<Flag.file, output_file.value>>
                     \o SwitchArgs(config),
                 output_file.value>>)

\* RecorderConfig::default().
Default ==
    [capture_mode |-> "Screen", audio_mode |-> "System", audio_device |-> << >>,
     audio_backend |-> << >>, audio_codec |-> << >>, audio_codec_params |-> << >>,
     sample_rate |-> <<"4", "8", "0", "0", "0">>, sample_format |-> << >>,
     codec |-> <<"l", "i", "b", "x", "2", "6", "4">>, codec_params |-> << >>,
     framerate |-> << >>, bframes |-> << >>, buffrate |-> << >>,
     encoding_device |-> << >>, pixel_format |-> << >>, muxer |-> << >>,
     output |-> << >>, filter |-> << >>, area_geometry |-> << >>,
     selected_window_geometry |-> << >>, selected_speaker_device |-> << >>,
     selected_microphone_device |-> << >>,
     file_template |-> <<"~", "/", "V", "i", "d", "e", "o", "s", "/", "w", "f", "r", "e", "c", "o", "r", "d", "i", "n", "g", "/", "$", "t", "i", "m", "e", "s", "t", "a", "m", "p", ".", "$", "f", "o", "r", "m", "a", "t">>,
     file_format |-> <<"m", "p", "4">>,
     no_dmabuf |-> FALSE, no_damage |-> FALSE, log_enabled |-> TRUE,
     overwrite |-> FALSE]

\* Geometries a user can have selected or typed: none, blanks, one.
Geometries == {<< >>, <<" ">>, <<"1", ",", "2", " ", "3", "x", "4">>}
\* Templates: the default, blanks, one that starts with an unknown
\* placeholder, one without a home directory, one with an unknown placeholder
\* behind a known one, the bare timestamp, and the home directory itself.
Templates ==
    {<<"~", "/", "V", "i", "d", "e", "o", "s", "/", "w", "f", "r", "e", "c", "o", "r", "d", "i", "n", "g", "/", "$", "t", "i", "m", "e", "s", "t", "a", "m", "p", ".", "$", "f", "o", "r", "m", "a", "t">>,
     <<" ">>,
     <<"$", "x", "/", "$", "t", "i", "m", "e", "s", "t", "a", "m", "p">>,
     <<"v", "-", "$", "t", "i", "m", "e", "s", "t", "a", "m", "p", ".", "$", "f", "o", "r", "m", "a", "t", " ">>,
     <<"$", "t", "i", "m", "e", "s", "t", "a", "m", "p", "/", "$", "x">>,
     <<"$", "t", "i", "m", "e", "s", "t", "a", "m", "p">>,
     <<"~", "/">>}
\* Readings of Local::now().format("%Y-%m-%d_%H-%M-%S").
Clock == {<<"2", "0", "2", "4", "-", "0", "1", "-", "0", "1", "_", "0", "0", "-", "0", "0", "-", "0", "0">>, <<"2", "0", "2", "4", "-", "0", "1", "-", "0", "1", "_", "0", "0", "-", "0", "0", "-", "0", "1">>}
\* Values of timestamp_override.
Overrides == {None, Some(<<"T">>), Some(<<" ">>), Some(<<"2", "0", "2", "4", "-", "0", "1", "-", "0", "1", "_", "0", "0", "-", "0", "0", "-", "0", "0">>)}
\* What env::var("HOME") gives: not set, a directory, set to nothing.
Homes == {None, Some(<< >>), Some(<<"/", "h", "o", "m", "e", "/", "u">>)}
\* The configurations followed: the default with another capture mode,
\* geometry, audio mode, template, format and overwrite switch.
Configs ==
    {[Default EXCEPT !.capture_mode = mode, !.selected_window_geometry = window,
                     !.area_geometry = area, !.audio_mode = audio,
                     !.file_template = template, !.overwrite = overwrite] :
        mode \in {"Screen", "Window", "Area"}, window \in Geometries,
        area \in Geometries, audio \in {"None", "Both"},
        template \in Templates, overwrite \in BOOLEAN}

\* The audio settings followed: none made, all made, and fields of blanks.
AudioSettings ==
    {[audio_backend |-> << >>, audio_codec |-> << >>, sample_rate |-> << >>,
      sample_format |-> << >>],
     [audio_backend |-> <<"p", "u", "l", "s", "e">>, audio_codec |-> <<"a", "a", "c">>,
      sample_rate |-> <<"4", "8", "0", "0", "0">>, sample_format |-> <<"s", "1", "6">>],
     [audio_backend |-> <<" ">>, audio_codec |-> <<" ", "a", "a", "c">>,
      sample_rate |-> <<" ", " ">>, sample_format |-> << >>]}
\* Lists of ParamEntry: empty, one entry, one entry and an empty one, two
\* entries of which the second has a key only.
ParamLists ==
    {<< >>,
     <<[key |-> <<"k">>, value |-> <<"v">>]>>,
     <<[key |-> <<"k">>, value |-> <<"v">>], [key |-> << >>, value |-> <<" ">>]>>,
     <<[key |-> <<"k">>, value |-> <<"v">>], [key |-> <<"q">>, value |-> << >>]>>}
\* The audio configurations followed: every audio mode, each of the three
\* devices chosen or not, the audio settings and the audio codec parameters.
AudioConfigs ==
    {[Default EXCEPT !.audio_mode = mode, !.selected_speaker_device = s,
                     !.selected_microphone_device = m, !.audio_device = d,
                     !.audio_backend = settings.audio_backend,
                     !.audio_codec = settings.audio_codec,
                     !.sample_rate = settings.sample_rate,
                     !.sample_format = settings.sample_format,
                     !.audio_codec_params = params] :
        mode \in {"None", "System", "Microphone", "Both"},
        s \in {<< >>, <<"S">>}, m \in {<< >>, <<"M">>}, d \in {<< >>, <<"D">>},
        settings \in AudioSettings, params \in ParamLists}
\* The video settings followed: the default, all made, and fields of blanks.
VideoSettings ==
    {[codec |-> Default.codec, codec_params |-> << >>, framerate |-> << >>,
      bframes |-> << >>, buffrate |-> << >>, encoding_device |-> << >>,
      pixel_format |-> << >>, muxer |-> << >>, filter |-> << >>],
     [codec |-> <<"v", "p", "9">>,
      codec_params |-> <<[key |-> <<"k">>, value |-> <<"v">>], [key |-> <<"q">>, value |-> << >>]>>,
      framerate |-> <<"3", "0">>, bframes |-> <<"2">>, buffrate |-> <<"6", "0">>,
      encoding_device |-> <<"/", "d">>, pixel_format |-> <<"n", "v", "1", "2">>,
      muxer |-> <<"m", "k", "v">>, filter |-> <<"f">>],
     [codec |-> <<" ">>,
      codec_params |-> <<[key |-> <<" ">>, value |-> << >>], [key |-> << >>, value |-> <<"v", " ">>]>>,
      framerate |-> <<" ">>, bframes |-> << >>, buffrate |-> <<" ", "6", "0">>,
      encoding_device |-> << >>, pixel_format |-> <<" ">>,
      muxer |-> << >>, filter |-> <<" ", " ">>]}
\* The configurations followed for the order of the blocks: every capture
\* mode with its target given (the output of Screen given, blank or not), the
\* video settings, the four switches, and audio off or on with its settings.
SwitchConfigs ==
    {[Default EXCEPT !.capture_mode = mode, !.output = output,
                     !.selected_window_geometry = <<"1", ",", "2", " ", "3", "x", "4">>,
                     !.area_geometry = <<"5", ",", "6", " ", "7", "x", "8">>,
                     !.audio_mode = audio,
                     !.audio_backend = <<"p", "u", "l", "s", "e">>,
                     !.codec = video.codec, !.codec_params = video.codec_params,
                     !.framerate = video.framerate, !.bframes = video.bframes,
                     !.buffrate = video.buffrate,
                     !.encoding_device = video.encoding_device,
                     !.pixel_format = video.pixel_format, !.muxer = video.muxer,
                     !.filter = video.filter,
                     !.no_dmabuf = switches[1], !.no_damage = switches[2],
                     !.log_enabled = switches[3], !.overwrite = switches[4]] :
        mode \in {"Screen", "Window", "Area"},
        output \in {<< >>, <<" ">>, <<"D", "P", "-", "1">>},
        audio \in {"None", "System"}, video \in VideoSettings,
        switches \in BOOLEAN \X BOOLEAN \X BOOLEAN \X BOOLEAN}

\* ------------------------------------------------- discovery.rs: the windows
\* A detect_windows that asks hyprctl first.
detect_windows_HyprFirst(sway, hypr) ==
    LET b == detect_hypr_windows(hypr)
        a == detect_sway_windows(sway)
    IN IF b.ok /\ b.value /= << >>
       THEN [ret |-> Ok(b.value), ran |-> <<"hyprctl">>]
       ELSE IF a.ok /\ a.value /= << >>
            THEN [ret |-> Ok(a.value), ran |-> <<"hyprctl", "swaymsg">>]
            ELSE [ret |-> Err(<<IF b.ok THEN "hyprctl returned no windows" ELSE b.value,
                                IF a.ok THEN "swaymsg returned no windows" ELSE a.value>>),
                  ran |-> <<"hyprctl", "swaymsg">>]

\* detect_windows, given what each command would answer.  ret is the value
\* returned, ran the commands that were run.  attempts.join(". ") is the
\* sequence of the joined messages; attempts is never empty at the end.
detect_windows(sway, hypr) ==
    LET a == detect_sway_windows(sway)
    IN IF a.ok /\ a.value /= << >>
       THEN [ret |-> Ok(a.value), ran |-> <<"swaymsg">>]
       ELSE LET attempts == <<IF a.ok THEN "swaymsg returned no windows" ELSE a.value>>
                b == detect_hypr_windows(hypr)
            IN IF b.ok /\ b.value /= << >>
               THEN [ret |-> Ok(b.value), ran |-> <<"swaymsg", "hyprctl">>]
               ELSE [ret |-> Err(Append(attempts,
                                  IF b.ok THEN "hyprctl returned no windows" ELSE b.value)),
                     ran |-> <<"swaymsg", "hyprctl">>]

\* ------------------------------------------------------------------- Init
\* No function of config.rs or discovery.rs is being followed.
NoCall == [fn |-> "none"]
NotReturned == [tag |-> "pending"]

\* RecorderApp::new(): empty log with the dirty flag set, Idle, and the three
\* refresh requests already made (their threads running, nothing sent yet).
RecorderApp_new ==
    /\ status = Idle
    /\ last_error = None
    /\ last_recording_summary = None
    /\ log_entries = << >>
    /\ log_buffer = << >>
    /\ log_dirty = TRUE
    /\ log_display = << >>
    /\ loading = [p \in Probes |-> TRUE]
    /\ probe_error = [p \in Probes |-> None]
    /\ receiver = [p \in Probes |-> Some(<<p, 1>>)]
    /\ available = [p \in Probes |-> << >>]
    /\ ctl = "ready"
    /\ frame = NoFrame
    /\ rpc = [s \in Sources |-> "none"]
    /\ rlocal = [s \in Sources |-> NoLocal]
    /\ child = NoChild
    /\ pipe = [s \in Sources |-> [written |-> 0, read |-> 0]]
    /\ now = 0
    /\ chans = [c \in {<<p, 1>> : p \in Probes} |-> [queue |-> << >>, sender |-> TRUE]]
    /\ tasks = {<<p, 1>> : p \in Probes}
    /\ nreq = [p \in Probes |-> 1]
    /\ applied = [c \in Channels |-> 0]
    /\ fed = 0
    /\ joined = {}
    /\ dir_created = FALSE
    /\ last_op = "new"

Init ==
    /\ RecorderApp_new
    /\ call = NoCall
    /\ ret = NotReturned


\* ------------------------------------------------------- the child process
\* What std::process::Child::kill does to the child when the signal is sent.
Killed(c) ==
    IF c.state = "running"
    THEN [c EXCEPT !.state = "exited", !.killed = TRUE]
    ELSE [c EXCEPT !.killed = TRUE]

\* The child writes one more line to one of its pipes.  A pipe whose reader
\* thread has ended has no read end left and takes no line.
ChildWrite(s) ==
    /\ child.state = "running"
    /\ rpc[s] /= "done"
    /\ pipe["Stdout"].written + pipe["Stderr"].written < MaxLines
    /\ pipe' = [pipe EXCEPT ![s].written = @ + 1]
    /\ UNCHANGED <<last_op, sessionVars, logVars, probeVars, ctl, frame, readerVars, child,
                   now, taskVars, joined>>
    /\ UNCHANGED <<dir_created, call, ret>>

\* The running child ends (on its own, or on an interrupt it was sent); it stays
\* a zombie until try_wait collects its status.
ChildExit ==
    /\ child.state = "running"
    /\ child' = [child EXCEPT !.state = "exited"]
    /\ UNCHANGED <<last_op, sessionVars, logVars, probeVars, ctl, frame, readerVars, pipe,
                   now, taskVars, joined>>
    /\ UNCHANGED <<dir_created, call, ret>>

\* Instant::now() moves on.  The clock is read only by started_at.elapsed() in
\* poll_process, after finish(); a tick commutes with every other step, so the
\* ticks of a session are all taken right before that read.
Tick ==
    /\ ctl = "finished"
    /\ frame.op = "poll"
    /\ now < MaxTime
    /\ now' = now + 1
    /\ UNCHANGED <<last_op, sessionVars, logVars, probeVars, ctl, frame, readerVars, child,
                   pipe, taskVars, joined>>
    /\ UNCHANGED <<dir_created, call, ret>>

\* ------------------------------------------------------- the reader threads
CurrentSession == child.id

\* A trim that keeps the oldest entries and drops the newest.
drain_excess_Newest(logs) ==
    IF Len(logs) > LogCap THEN SubSeq(logs, 1, LogCap) ELSE logs
\* logs.drain(0..excess) when logs.len() exceeds the cap.
drain_excess(logs) ==
    IF Len(logs) > LogCap
    THEN SubSeq(logs, Len(logs) - LogCap + 1, Len(logs))
    ELSE logs

\* read_line returned a line: push the entry under the entry-list lock, drain
\* the excess over the cap and, if anything was drained, keep a snapshot.
ReaderPush(s) ==
    /\ rpc[s] = "read"
    /\ pipe[s].read < pipe[s].written
    /\ LET new_entry == [source |-> s, line |-> <<CurrentSession, pipe[s].read + 1>>]
           pushed == Append(log_entries, new_entry)
           logs == drain_excess(pushed)
           snapshot == IF Len(pushed) > LogCap THEN Some(logs) ELSE None
       IN /\ log_entries' = logs
          /\ rlocal' = [rlocal EXCEPT ![s] = [new_entry |-> Some(new_entry),
                                              snapshot |-> snapshot]]
    /\ pipe' = [pipe EXCEPT ![s].read = @ + 1]
    /\ rpc' = [rpc EXCEPT ![s] = "text"]
    /\ fed' = Min(fed + 1, LogCap + 1)
    /\ UNCHANGED <<last_op, sessionVars, log_buffer, log_dirty, log_display, probeVars, ctl,
                   frame, child, now, taskVars, joined>>
    /\ UNCHANGED <<dir_created, call, ret>>

\* Under the buffer lock: rebuild the text from the snapshot, or append the
\* new entry's line.
ReaderText(s) ==
    /\ rpc[s] = "text"
    /\ log_buffer' = IF IsSome(rlocal[s].snapshot)
                     THEN Rebuild(rlocal[s].snapshot[1])
                     ELSE append_log_line(log_buffer, rlocal[s].new_entry[1])
    /\ rpc' = [rpc EXCEPT ![s] = "dirty"]
    /\ UNCHANGED <<last_op, sessionVars, log_entries, log_dirty, log_display, probeVars, ctl,
                   frame, rlocal, fed, child, pipe, now, taskVars, joined>>
    /\ UNCHANGED <<dir_created, call, ret>>

\* log_dirty.store(true), then back to read_line.
ReaderDirty(s) ==
    /\ rpc[s] = "dirty"
    /\ log_dirty' = TRUE
    /\ rpc' = [rpc EXCEPT ![s] = "read"]
    /\ rlocal' = [rlocal EXCEPT ![s] = NoLocal]
    /\ UNCHANGED <<last_op, sessionVars, log_entries, log_buffer, log_display, probeVars, ctl,
                   frame, fed, child, pipe, now, taskVars, joined>>
    /\ UNCHANGED <<dir_created, call, ret>>

\* A reader that never sees the end of its stream.
ReaderEof_Never(s) ==
    /\ FALSE
    /\ UNCHANGED vars

\* read_line returned Ok(0): the pipe is drained and its write end is closed.
ReaderEof(s) ==
    /\ rpc[s] = "read"
    /\ pipe[s].read = pipe[s].written
    /\ child.state /= "running"
    /\ rpc' = [rpc EXCEPT ![s] = "done"]
    /\ UNCHANGED <<last_op, sessionVars, logVars, probeVars, ctl, frame, rlocal, fed, child,
                   pipe, now, taskVars, joined>>
    /\ UNCHANGED <<dir_created, call, ret>>

\* read_line returned Err (a line that is not UTF-8): the thread ends.
ReaderErr(s) ==
    /\ rpc[s] = "read"
    /\ pipe[s].read < pipe[s].written
    /\ rpc' = [rpc EXCEPT ![s] = "done"]
    /\ UNCHANGED <<last_op, sessionVars, logVars, probeVars, ctl, frame, rlocal, fed, child,
                   pipe, now, taskVars, joined>>
    /\ UNCHANGED <<dir_created, call, ret>>


\* ------------------------------------------------ the control thread: session
\* A start that makes the output directory before it validates the arguments.
StartFailed_DirectoryFirst(outcome) ==
    /\ last_error' =
          Some(CASE outcome = "invalid" -> "build_command_args error"
                 [] outcome = "no_directory" -> "Failed to create output directory"
                 [] OTHER -> "Failed to start wf-recorder")
    /\ dir_created' = (dir_created \/ outcome \in {"invalid", "no_spawn"})
    /\ last_op' = "start_failed"
    /\ UNCHANGED <<status, last_recording_summary, child, pipe, rpc, rlocal,
                   joined, now>>

\* start_recording returning without a process: build_command_args failed (the
\* return comes before create_dir_all), create_dir_all failed, or the
\* directory is there and spawn failed.  The error is stored, nothing else.
StartFailed(outcome) ==
    /\ last_error' =
          Some(CASE outcome = "invalid" -> "build_command_args error"
                 [] outcome = "no_directory" -> "Failed to create output directory"
                 [] OTHER -> "Failed to start wf-recorder")
    /\ dir_created' = (dir_created \/ outcome = "no_spawn")
    /\ last_op' = "start_failed"
    /\ UNCHANGED <<status, last_recording_summary, child, pipe, rpc, rlocal,
                   joined, now>>

\* RecorderApp::start_recording.  build_command_args, create_dir_all and spawn
\* each succeed or fail; the spawned child gets the next process id.
start_recording ==
    /\ ctl = "ready"
    /\ \E outcome \in {"invalid", "no_directory", "no_spawn", "spawned"} :
          IF outcome = "spawned"
          THEN /\ child.id < MaxSessions
               /\ dir_created' = TRUE
               /\ child' = [id |-> child.id + 1, state |-> "running",
                          signalled |-> FALSE, killed |-> FALSE]
               /\ now' = 0
               /\ pipe' = [s \in Sources |-> [written |-> 0, read |-> 0]]
               /\ rpc' = [s \in Sources |-> "read"]
               /\ rlocal' = [s \in Sources |-> NoLocal]
               /\ status' = Running([child |-> child.id + 1,
                                     stdout_join |-> Some("Stdout"),
                                     stderr_join |-> Some("Stderr"),
                                     started_at |-> 0,
                                     output_file |-> OutputFile])
               /\ last_error' = None
               /\ last_recording_summary' = None
               /\ joined' = {}
               /\ last_op' = "start_spawned"
          ELSE StartFailed(outcome)
    /\ UNCHANGED <<logVars, probeVars, ctl, frame, fed, taskVars, call, ret>>

\* stop_recording, the arm Ok(()): SIGINT was sent, the process is put back.
StopSignalled_Dropped ==
    /\ child' = [child EXCEPT !.signalled = TRUE]
    /\ status' = Idle
    /\ last_op' = "stop_signalled"
    /\ UNCHANGED <<ctl, frame>>
StopSignalled ==
    /\ child' = [child EXCEPT !.signalled = TRUE]
    /\ last_op' = "stop_signalled"
    /\ UNCHANGED <<status, ctl, frame>>

\* RecorderApp::stop_recording up to the call of finish(): the status is swapped
\* out; request_graceful_stop succeeds (the process is put back) or fails.
stop_recording ==
    /\ ctl = "ready"
    /\ IF is_running(status)
       THEN \E signalled \in BOOLEAN :
               IF signalled
               THEN StopSignalled
               ELSE /\ status' = Idle
                    /\ frame' = [op |-> "stop", process |-> status.process]
                    /\ ctl' = "join_stdout"
                    /\ last_op' = "stop_signal_failed"
                    /\ UNCHANGED child
       ELSE /\ last_op' = "stop_idle"
            /\ UNCHANGED <<status, ctl, frame, child>>
    /\ UNCHANGED <<last_error, last_recording_summary, logVars, probeVars,
                   readerVars, pipe, now, taskVars, joined>>
    /\ UNCHANGED <<dir_created, call, ret>>

\* stop_recording after finish() has returned.
stop_recording_finished ==
    /\ ctl = "finished"
    /\ frame.op = "stop"
    /\ status' = Idle
    /\ last_error' = Some("Failed to signal wf-recorder")
    /\ ctl' = "ready"
    /\ frame' = NoFrame
    /\ last_op' = "stop_escalated"
    /\ UNCHANGED <<last_recording_summary, logVars, probeVars, readerVars, osVars,
                   taskVars, joined>>
    /\ UNCHANGED <<dir_created, call, ret>>

\* A force stop that, finding the session Idle, kills the child spawned last
\* and stores an error.
force_stop_recording_IdleKills ==
    /\ ctl = "ready"
    /\ IF is_running(status)
       THEN \E killed \in BOOLEAN :
               /\ child' = IF killed THEN Killed(child) ELSE child
               /\ last_error' = IF killed THEN last_error
                                ELSE Some("Failed to terminate wf-recorder")
               /\ status' = Idle
               /\ frame' = [op |-> "force", process |-> status.process]
               /\ ctl' = "join_stdout"
               /\ last_op' = IF killed THEN "force_killed" ELSE "force_kill_failed"
       ELSE /\ status' = Idle
            /\ last_op' = "force_idle"
            /\ child' = [child EXCEPT !.killed = TRUE]
            /\ last_error' = Some("Failed to terminate wf-recorder")
            /\ UNCHANGED <<ctl, frame>>
    /\ UNCHANGED <<last_recording_summary, logVars, probeVars, readerVars, pipe,
                   now, taskVars, joined>>
    /\ UNCHANGED <<dir_created, call, ret>>

\* RecorderApp::force_stop_recording up to the call of finish(): child.kill()
\* succeeds or fails, and finish() is called either way.
force_stop_recording ==
    /\ ctl = "ready"
    /\ IF is_running(status)
       THEN \E killed \in BOOLEAN :
               /\ child' = IF killed THEN Killed(child) ELSE child
               /\ last_error' = IF killed THEN last_error
                                ELSE Some("Failed to terminate wf-recorder")
               /\ status' = Idle
               /\ frame' = [op |-> "force", process |-> status.process]
               /\ ctl' = "join_stdout"
               /\ last_op' = IF killed THEN "force_killed" ELSE "force_kill_failed"
       ELSE /\ status' = Idle
            /\ last_op' = "force_idle"
            /\ UNCHANGED <<last_error, child, ctl, frame>>
    /\ UNCHANGED <<last_recording_summary, logVars, probeVars, readerVars, pipe,
                   now, taskVars, joined>>
    /\ UNCHANGED <<dir_created, call, ret>>

\* A force stop that puts the process back once finish() has returned.
force_stop_recording_finished_PutBack ==
    /\ ctl = "finished"
    /\ frame.op = "force"
    /\ status' = Running(frame.process)
    /\ ctl' = "ready"
    /\ frame' = NoFrame
    /\ last_op' = "force_stopped"
    /\ UNCHANGED <<last_error, last_recording_summary, logVars, probeVars,
                   readerVars, osVars, taskVars, joined>>
    /\ UNCHANGED <<dir_created, call, ret>>

\* force_stop_recording after finish() has returned.
force_stop_recording_finished ==
    /\ ctl = "finished"
    /\ frame.op = "force"
    /\ status' = Idle
    /\ ctl' = "ready"
    /\ frame' = NoFrame
    /\ last_op' = "force_stopped"
    /\ UNCHANGED <<last_error, last_recording_summary, logVars, probeVars,
                   readerVars, osVars, taskVars, joined>>
    /\ UNCHANGED <<dir_created, call, ret>>

\* RecorderProcess::finish, first half: take stdout_join and join it.  join()
\* returns once the thread has ended.
finish_stdout ==
    /\ ctl = "join_stdout"
    /\ IF IsSome(frame.process.stdout_join)
       THEN /\ rpc[frame.process.stdout_join[1]] = "done"
            /\ joined' = joined \cup {frame.process.stdout_join[1]}
       ELSE UNCHANGED joined
    /\ frame' = [frame EXCEPT !.process.stdout_join = None]
    /\ ctl' = "join_stderr"
    /\ last_op' = "join"
    /\ UNCHANGED <<sessionVars, logVars, probeVars, readerVars, osVars, taskVars>>
    /\ UNCHANGED <<dir_created, call, ret>>

\* A finish() that drops the stderr handle without joining the thread.
finish_stderr_Detached ==
    /\ ctl = "join_stderr"
    /\ joined' = IF IsSome(frame.process.stderr_join)
                 THEN joined \cup {frame.process.stderr_join[1]} ELSE joined
    /\ frame' = [frame EXCEPT !.process.stderr_join = None]
    /\ ctl' = "finished"
    /\ last_op' = "join"
    /\ UNCHANGED <<sessionVars, logVars, probeVars, readerVars, osVars, taskVars>>
    /\ UNCHANGED <<dir_created, call, ret>>

\* RecorderProcess::finish, second half: take stderr_join and join it.
finish_stderr ==
    /\ ctl = "join_stderr"
    /\ IF IsSome(frame.process.stderr_join)
       THEN /\ rpc[frame.process.stderr_join[1]] = "done"
            /\ joined' = joined \cup {frame.process.stderr_join[1]}
       ELSE UNCHANGED joined
    /\ frame' = [frame EXCEPT !.process.stderr_join = None]
    /\ ctl' = "finished"
    /\ last_op' = "join"
    /\ UNCHANGED <<sessionVars, logVars, probeVars, readerVars, osVars, taskVars>>
    /\ UNCHANGED <<dir_created, call, ret>>

\* poll_process, the arm Ok(None): the process is put back.
PollStillRunning_Dropped ==
    /\ status' = Idle
    /\ last_op' = "poll_running"
    /\ UNCHANGED <<last_error, child, ctl, frame>>
PollStillRunning ==
    /\ last_op' = "poll_running"
    /\ UNCHANGED <<status, last_error, child, ctl, frame>>

\* poll_process, the arm Err(err): the error is stored, the process is put back.
PollFailed_Swallowed ==
    /\ last_op' = "poll_failed"
    /\ UNCHANGED <<status, last_error, child, ctl, frame>>
PollFailed ==
    /\ last_error' = Some("Failed to poll wf-recorder status")
    /\ last_op' = "poll_failed"
    /\ UNCHANGED <<status, child, ctl, frame>>

\* RecorderApp::poll_process up to the call of finish(): try_wait fails, finds
\* the child still running, or collects the exit status of a child that ended.
poll_process ==
    /\ ctl = "ready"
    /\ IF is_running(status)
       THEN \E waited \in BOOLEAN, exit_status \in ChildExitStatuses :
               IF ~waited
               THEN PollFailed
               ELSE IF child.state = "exited"
               THEN /\ child' = [child EXCEPT !.state = "reaped"]
                    /\ status' = Idle
                    /\ frame' = [op |-> "poll", process |-> status.process,
                                 exit |-> exit_status]
                    /\ ctl' = "join_stdout"
                    /\ last_op' = "poll_exited"
                    /\ UNCHANGED last_error
               ELSE PollStillRunning
       ELSE /\ last_op' = "poll_idle"
            /\ UNCHANGED <<status, last_error, child, ctl, frame>>
    /\ UNCHANGED <<last_recording_summary, logVars, probeVars, readerVars, pipe,
                   now, taskVars, joined>>
    /\ UNCHANGED <<dir_created, call, ret>>

\* The summary poll_process builds, as the parts its format! and push_str
\* calls put together.
Summary_NoExitSuffix(process, exit, file_exists, tail) ==
    [kind |-> "Saved to",
     output_file |-> process.output_file,
     seconds |-> now - process.started_at,
     exit_suffix |-> << >>]
Summary(process, exit, file_exists, tail) ==
    IF file_exists
    THEN [kind |-> "Saved to",
          output_file |-> process.output_file,
          seconds |-> now - process.started_at,
          exit_suffix |-> format_exit_status(exit)]
    ELSE [kind |-> "no file was created at",
          output_file |-> process.output_file,
          seconds |-> now - process.started_at,
          exit_suffix |-> format_exit_status(exit),
          recent |-> IF IsSome(tail)
                     THEN <<"Recent wf-recorder output:", tail[1]>>
                     ELSE <<"No wf-recorder output was captured.">>]

\* poll_process after finish() has returned: elapsed time, Path::exists (the
\* file is there or not), the summary (with the log tail when there is no file), last_error, Idle.
poll_process_finished ==
    /\ ctl = "finished"
    /\ frame.op = "poll"
    /\ \E file_exists \in BOOLEAN :
          /\ last_recording_summary' =
                Some(Summary(frame.process, frame.exit, file_exists,
                             recent_log_tail(log_buffer, TailLines)))
          /\ last_error' = IF ~file_exists /\ last_error = None
                           THEN Some("Recording did not produce an output file.")
                           ELSE last_error
          /\ last_op' = IF file_exists THEN "poll_saved" ELSE "poll_no_file"
    /\ status' = Idle
    /\ ctl' = "ready"
    /\ frame' = NoFrame
    /\ UNCHANGED <<logVars, probeVars, readerVars, osVars, taskVars, joined>>
    /\ UNCHANGED <<dir_created, call, ret>>


\* ------------------------------------------------- the control thread: probes
\* What a probe thread can send: detect_outputs / detect_windows /
\* detect_audio_devices return a list (named after the request here, so that
\* two results differ) or an error message.
Results(c) == {[ok |-> TRUE, value |-> <<c[2]>>],
               [ok |-> FALSE, value |-> "probe failed"]}

\* A refresh request without the early return on the loading flag.
request_refresh_NoGuard(p) ==
    /\ ctl = "ready"
    /\ nreq[p] < MaxRefresh
    /\ LET c == <<p, nreq[p] + 1>>
       IN /\ chans' = (c :> [queue |-> << >>, sender |-> TRUE]) @@ chans
          /\ tasks' = tasks \cup {c}
          /\ receiver' = [receiver EXCEPT ![p] = Some(c)]
    /\ nreq' = [nreq EXCEPT ![p] = @ + 1]
    /\ loading' = [loading EXCEPT ![p] = TRUE]
    /\ probe_error' = [probe_error EXCEPT ![p] = None]
    /\ last_op' = IF loading[p] THEN "refresh_ignored" ELSE "refresh_started"
    /\ UNCHANGED <<available, applied, sessionVars, logVars, ctl, frame,
                   readerVars, osVars, joined>>
    /\ UNCHANGED <<dir_created, call, ret>>

\* A refresh request that sets the loading flag and keeps no receiver.
request_refresh_NoReceiver(p) ==
    /\ ctl = "ready"
    /\ IF loading[p]
       THEN /\ last_op' = "refresh_ignored"
            /\ UNCHANGED <<probeVars, taskVars>>
       ELSE /\ nreq[p] < MaxRefresh
            /\ LET c == <<p, nreq[p] + 1>>
               IN /\ chans' = (c :> [queue |-> << >>, sender |-> TRUE]) @@ chans
                  /\ tasks' = tasks \cup {c}
                  /\ UNCHANGED applied
                  /\ UNCHANGED receiver
            /\ nreq' = [nreq EXCEPT ![p] = @ + 1]
            /\ loading' = [loading EXCEPT ![p] = TRUE]
            /\ probe_error' = [probe_error EXCEPT ![p] = None]
            /\ last_op' = "refresh_started"
            /\ UNCHANGED available
    /\ UNCHANGED <<sessionVars, logVars, ctl, frame, readerVars, osVars, joined>>
    /\ UNCHANGED <<dir_created, call, ret>>

\* A refresh request that clears the errors of all three probe types.
request_refresh_ClearsAll(p) ==
    /\ ctl = "ready"
    /\ IF loading[p]
       THEN /\ last_op' = "refresh_ignored"
            /\ UNCHANGED <<probeVars, taskVars>>
       ELSE /\ nreq[p] < MaxRefresh
            /\ LET c == <<p, nreq[p] + 1>>
               IN /\ chans' = (c :> [queue |-> << >>, sender |-> TRUE]) @@ chans
                  /\ tasks' = tasks \cup {c}
                  /\ UNCHANGED applied
                  /\ receiver' = [receiver EXCEPT ![p] = Some(c)]
            /\ nreq' = [nreq EXCEPT ![p] = @ + 1]
            /\ loading' = [loading EXCEPT ![p] = TRUE]
            /\ probe_error' = [q \in Probes |-> None]
            /\ last_op' = "refresh_started"
            /\ UNCHANGED available
    /\ UNCHANGED <<sessionVars, logVars, ctl, frame, readerVars, osVars, joined>>
    /\ UNCHANGED <<dir_created, call, ret>>
\* request_output_refresh / request_window_refresh / request_audio_refresh:
\* nothing while loading; else a fresh channel, loading, no error, the receiver
\* stored, and a thread that holds the sender.
request_refresh(p) ==
    /\ ctl = "ready"
    /\ IF loading[p]
       THEN /\ last_op' = "refresh_ignored"
            /\ UNCHANGED <<probeVars, taskVars>>
       ELSE /\ nreq[p] < MaxRefresh
            /\ LET c == <<p, nreq[p] + 1>>
               IN /\ chans' = (c :> [queue |-> << >>, sender |-> TRUE]) @@ chans
                  /\ tasks' = tasks \cup {c}
                  /\ UNCHANGED applied
                  /\ receiver' = [receiver EXCEPT ![p] = Some(c)]
            /\ nreq' = [nreq EXCEPT ![p] = @ + 1]
            /\ loading' = [loading EXCEPT ![p] = TRUE]
            /\ probe_error' = [probe_error EXCEPT ![p] = None]
            /\ last_op' = "refresh_started"
            /\ UNCHANGED available
    /\ UNCHANGED <<sessionVars, logVars, ctl, frame, readerVars, osVars, joined>>
    /\ UNCHANGED <<dir_created, call, ret>>

\* A try_recv that reports a dropped sender before looking at the queue.
try_recv_DisconnectFirst(c) ==
    IF ~chans[c].sender THEN [tag |-> "Disconnected"]
    ELSE IF chans[c].queue /= << >> THEN [tag |-> "Ok", msg |-> Head(chans[c].queue)]
    ELSE [tag |-> "Empty"]

\* A try_recv that never reports a dropped sender.
try_recv_NeverDisconnected(c) ==
    IF chans[c].queue /= << >> THEN [tag |-> "Ok", msg |-> Head(chans[c].queue)]
    ELSE [tag |-> "Empty"]

\* A try_recv that reports every empty queue as a dropped sender.
try_recv_EmptyIsDisconnected(c) ==
    IF chans[c].queue /= << >> THEN [tag |-> "Ok", msg |-> Head(chans[c].queue)]
    ELSE [tag |-> "Disconnected"]
\* Receiver::try_recv on channel c.
try_recv(c) ==
    IF chans[c].queue /= << >> THEN [tag |-> "Ok", msg |-> Head(chans[c].queue)]
    ELSE IF ~chans[c].sender THEN [tag |-> "Disconnected"]
    ELSE [tag |-> "Empty"]

\* What the block of poll_async_tasks for probe type p sees.
Received(p) ==
    IF loading[p] /\ IsSome(receiver[p]) THEN try_recv(receiver[p][1])
    ELSE [tag |-> "Skipped"]

DisconnectedMessage(p) ==
    CASE p = "outputs" -> "Background task disconnected unexpectedly."
      [] p = "windows" -> "Window refresh task disconnected unexpectedly."
      [] OTHER -> "Audio refresh task disconnected unexpectedly."

\* A store that keeps the previous entries in front of the received ones.
Stored_Extended(previous, list) == previous \o list
\* `self.available_outputs = outputs` and its two siblings: the field holds
\* the received list, the previous one is dropped.
Stored(previous, list) == list

\* RecorderApp::poll_async_tasks up to log_dirty.swap(false): the three
\* receive blocks (independent of each other), then the swap.
poll_async_tasks ==
    /\ ctl = "ready"
    /\ available' = [p \in Probes |->
          IF Received(p).tag = "Ok" /\ Received(p).msg.ok
          THEN Stored(available[p], Received(p).msg.value) ELSE available[p]]
    /\ loading' = [p \in Probes |->
          IF Received(p).tag \in {"Ok", "Disconnected"} THEN FALSE ELSE loading[p]]
    /\ receiver' = [p \in Probes |->
          IF Received(p).tag \in {"Ok", "Disconnected"} THEN None ELSE receiver[p]]
    /\ probe_error' = [p \in Probes |->
          CASE Received(p).tag = "Ok" ->
                  IF Received(p).msg.ok THEN None ELSE Some(Received(p).msg.value)
            [] Received(p).tag = "Disconnected" -> Some(DisconnectedMessage(p))
            [] OTHER -> probe_error[p]]
    /\ LET dropped == {receiver[p][1] : p \in {q \in Probes :
                          Received(q).tag \in {"Ok", "Disconnected"}}}
           taken == {receiver[p][1] : p \in {q \in Probes : Received(q).tag = "Ok"}}
       IN /\ chans' = [c \in DOMAIN chans \ dropped |-> chans[c]]
          /\ applied' = [c \in Channels |->
                            IF c \in taken THEN applied[c] + 1 ELSE applied[c]]
    /\ log_dirty' = FALSE
    /\ ctl' = IF log_dirty THEN "copy_log" ELSE "ready"
    /\ last_op' = "poll_async_tasks"
    /\ UNCHANGED <<sessionVars, log_entries, log_buffer, log_display, frame,
                   readerVars, osVars, tasks, nreq, joined>>
    /\ UNCHANGED <<dir_created, call, ret>>

\* A tick that has swapped the flag and returns without the copy.
poll_async_tasks_copy_Skipped ==
    /\ ctl = "copy_log"
    /\ ctl' = "ready"
    /\ last_op' = "copy_log"
    /\ UNCHANGED <<sessionVars, logVars, probeVars, frame, readerVars, osVars,
                   taskVars, joined, dir_created, call, ret>>

\* poll_async_tasks after the swap returned true: lock the buffer and copy it.
poll_async_tasks_copy ==
    /\ ctl = "copy_log"
    /\ log_display' = log_buffer
    /\ ctl' = "ready"
    /\ last_op' = "copy_log"
    /\ UNCHANGED <<sessionVars, log_entries, log_buffer, log_dirty, probeVars,
                   frame, readerVars, osVars, taskVars, joined>>
    /\ UNCHANGED <<dir_created, call, ret>>

\* The "Clear log" button, first half: log_entries is cleared under its lock.
clear_log_entries ==
    /\ ctl = "ready"
    /\ log_entries' = << >>
    /\ ctl' = "clear_buffer"
    /\ last_op' = "clear_log"
    /\ UNCHANGED <<sessionVars, log_buffer, log_dirty, log_display, probeVars,
                   frame, readerVars, osVars, taskVars, joined, dir_created, call, ret>>

\* The "Clear log" button, second half: log_buffer is cleared under its lock,
\* then log_display is cleared and log_dirty is stored true.
clear_log_buffer ==
    /\ ctl = "clear_buffer"
    /\ log_buffer' = << >>
    /\ log_display' = << >>
    /\ log_dirty' = TRUE
    /\ ctl' = "ready"
    /\ last_op' = "log_cleared"
    /\ UNCHANGED <<sessionVars, log_entries, probeVars, frame, readerVars,
                   osVars, taskVars, joined, dir_created, call, ret>>

\* ---------------------------------------------------------- the probe threads
\* The thread's detect_* call returns and tx.send(result) runs; the send is
\* ignored when the receiver is gone.  The thread ends and drops the sender.
TaskSend(c) ==
    /\ c \in tasks
    /\ \E result \in Results(c) :
          chans' = [d \in DOMAIN chans |->
                       IF d = c
                       THEN [queue |-> Append(chans[d].queue, result), sender |-> FALSE]
                       ELSE chans[d]]
    /\ tasks' = tasks \ {c}
    /\ UNCHANGED <<last_op, sessionVars, logVars, probeVars, ctl, frame, readerVars, osVars,
                   nreq, applied, joined>>
    /\ UNCHANGED <<dir_created, call, ret>>

\* The thread panics inside detect_*: the sender is dropped, nothing is sent.
TaskPanic(c) ==
    /\ c \in tasks
    /\ chans' = [d \in DOMAIN chans |->
                    IF d = c THEN [chans[d] EXCEPT !.sender = FALSE] ELSE chans[d]]
    /\ tasks' = tasks \ {c}
    /\ UNCHANGED <<last_op, sessionVars, logVars, probeVars, ctl, frame, readerVars, osVars,
                   nreq, applied, joined>>
    /\ UNCHANGED <<dir_created, call, ret>>

\* The thread of request_window_refresh: detect_windows runs its commands,
\* whatever they answer, and tx.send(result) sends what it returned.
WindowTask(c) ==
    /\ c \in tasks
    /\ c[1] = "windows"
    /\ \E sway \in SwayOutputs, hypr \in HyprOutputs :
          chans' = [d \in DOMAIN chans |->
                       IF d = c
                       THEN [queue |-> Append(chans[d].queue, detect_windows(sway, hypr).ret),
                             sender |-> FALSE]
                       ELSE chans[d]]
    /\ tasks' = tasks \ {c}
    /\ UNCHANGED <<last_op, sessionVars, logVars, probeVars, ctl, frame, readerVars,
                   osVars, nreq, applied, joined, dir_created, call, ret>>

\* --------------------------------------------------------- the specifications
\* The callers in view.rs: update() polls on every frame and stops on Ctrl+C
\* while running; recording_controls offers start while Idle, stop and force
\* stop while Running.
Start_Unguarded == start_recording
Start == status = Idle /\ start_recording
Stop == is_running(status) /\ stop_recording
ForceStop == is_running(status) /\ force_stop_recording

Session ==
    \/ Start
    \/ Stop
    \/ ForceStop
    \/ poll_process
    \/ poll_process_finished
    \/ stop_recording_finished
    \/ force_stop_recording_finished
    \/ finish_stdout
    \/ finish_stderr

Environment ==
    \/ \E s \in Sources : ChildWrite(s)
    \/ ChildExit
    \/ Tick
    \/ \E s \in Sources : ReaderPush(s)
    \/ \E s \in Sources : ReaderText(s)
    \/ \E s \in Sources : ReaderDirty(s)
    \/ \E s \in Sources : ReaderEof(s)
    \/ \E s \in Sources : ReaderErr(s)

\* The recorder session.  poll_async_tasks is left out: it reads and writes
\* only the probe fields, log_dirty and log_display, which no step below reads.
Next == Session \/ Environment
Spec == Init /\ [][Next]_vars

\* The recorder session with its threads scheduled: each reader thread keeps
\* running, a blocked join returns once its thread has ended, a handler that
\* has been entered runs to its end, and update() keeps polling, so that an
\* exit status waiting to be collected is collected.
ReaderStep(s) ==
    \/ ReaderPush(s)
    \/ ReaderText(s)
    \/ ReaderDirty(s)
    \/ ReaderEof(s)
    \/ ReaderErr(s)
PollExit == poll_process /\ last_op' = "poll_exited"
SpecFair ==
    /\ Spec
    /\ \A s \in Sources : WF_vars(ReaderStep(s))
    /\ WF_vars(PollExit)
    /\ WF_vars(finish_stdout)
    /\ WF_vars(finish_stderr)
    /\ WF_vars(poll_process_finished)
    /\ WF_vars(stop_recording_finished)
    /\ WF_vars(force_stop_recording_finished)

\* The log of one session: the start, the child and the two readers, the
\* per-frame poll_async_tasks and the "Clear log" button.  The exit of the
\* child is not collected, and no probe thread ends (every try_recv finds its
\* channel empty).
NextLog ==
    \/ Start
    \/ \E s \in Sources : ChildWrite(s)
    \/ ChildExit
    \/ \E s \in Sources : ReaderStep(s)
    \/ poll_async_tasks
    \/ poll_async_tasks_copy
    \/ clear_log_entries
    \/ clear_log_buffer
SpecLog == Init /\ [][NextLog]_vars

\* The discovery probes: the refresh buttons of view.rs, the per-frame
\* poll_async_tasks, and the probe threads.  No recording is started.
Refresh == \E p \in Probes : request_refresh(p)
ProbeThreads ==
    \/ \E c \in tasks : TaskSend(c)
    \/ \E c \in tasks : TaskPanic(c)
NextProbe ==
    \/ Refresh
    \/ poll_async_tasks
    \/ poll_async_tasks_copy
    \/ ProbeThreads
SpecProbe == Init /\ [][NextProbe]_vars
\* Frames keep being drawn: update() runs poll_async_tasks on every frame, and
\* asks for a repaint while outputs_loading holds.
SpecProbeFair ==
    SpecProbe /\ WF_vars(poll_async_tasks) /\ WF_vars(poll_async_tasks_copy)


\* Window discovery: the window refresh button, the per-frame
\* poll_async_tasks, and probe threads of which the window one runs
\* detect_windows; the other two can only end without a result.
NextDiscovery ==
    \/ request_refresh("windows")
    \/ poll_async_tasks
    \/ poll_async_tasks_copy
    \/ \E c \in tasks : WindowTask(c)
    \/ \E c \in tasks : TaskPanic(c)
SpecDiscovery == Init /\ [][NextDiscovery]_vars

\* The handlers called whatever the session is: stop_recording and
\* force_stop_recording also while the session is Idle, next to the per-frame
\* poll_process.  The child writes nothing here, so the readers only see the
\* end of their streams.
NextIdle ==
    \/ Start
    \/ stop_recording
    \/ force_stop_recording
    \/ poll_process
    \/ poll_process_finished
    \/ stop_recording_finished
    \/ force_stop_recording_finished
    \/ finish_stdout
    \/ finish_stderr
    \/ ChildExit
    \/ Tick
    \/ \E s \in Sources : ReaderEof(s)
SpecIdle == Init /\ [][NextIdle]_vars

\* The functions of discovery.rs and config.rs, each called once with
\* arguments (and command answers) drawn from the sets above.
appVars == <<sessionVars, logVars, probeVars, ctl, frame, readerVars, osVars,
             taskVars, joined, dir_created, last_op>>
Returned(value) == [tag |-> "returned", value |-> value]
DetectWindowsCalls ==
    [fn : {"detect_windows"}, sway : SwayOutputs, hypr : HyprOutputs]
call_detect_windows ==
    /\ call.fn = "detect_windows"
    /\ ret = NotReturned
    /\ ret' = Returned(detect_windows(call.sway, call.hypr))
    /\ UNCHANGED <<appVars, call>>

DetectOutputsCalls == [fn : {"detect_outputs"}, out : ListOutputs]
call_detect_outputs ==
    /\ call.fn = "detect_outputs"
    /\ ret = NotReturned
    /\ ret' = Returned(detect_outputs(call.out))
    /\ UNCHANGED <<appVars, call>>

\* A device as push_audio_device hands it over: a non-empty name, and the
\* description (the name again when pactl gave none).
ClassifyCalls ==
    [fn : {"classify_audio_device"}, name : AudioTexts, description : AudioTexts]
call_classify_audio_device ==
    /\ call.fn = "classify_audio_device"
    /\ ret = NotReturned
    /\ ret' = Returned(classify_audio_device(call.name, call.description))
    /\ UNCHANGED <<appVars, call>>

\* build_command_args on the configurations of the capture target and the
\* template with every timestamp and home, and on the audio and the switch
\* configurations with the override "T" and no home.
BuildCalls ==
    [fn : {"build_command_args"}, config : Configs, timestamp_override : Overrides,
     clock : Clock, home : Homes]
        \cup [fn : {"build_command_args"}, config : AudioConfigs \cup SwitchConfigs,
              timestamp_override : {Some(<<"T">>)}, clock : Clock, home : {None}]
call_build_command_args ==
    /\ call.fn = "build_command_args"
    /\ ret = NotReturned
    /\ ret' = Returned(build_command_args(call.config, call.timestamp_override,
                                          call.clock, call.home))
    /\ UNCHANGED <<appVars, call>>

\* Values of file_format: the default, none, and one with a blank in front.
Formats == {<<"m", "p", "4">>, << >>, <<" ", "m", "k", "v">>}
\* The output path resolved twice, the clock read anew in each call.
ResolveCalls ==
    [fn : {"resolve_output_file_with_timestamp"},
     config : {[Default EXCEPT !.file_template = template, !.file_format = format] :
                  template \in Templates, format \in Formats},
     timestamp_override : Overrides, clocks : Clock \X Clock, home : Homes]
call_resolve_output_file_with_timestamp ==
    /\ call.fn = "resolve_output_file_with_timestamp"
    /\ ret = NotReturned
    /\ ret' = Returned(
           <<resolve_output_file_with_timestamp(call.config, call.timestamp_override,
                                                call.clocks[1], call.home),
             resolve_output_file_with_timestamp(call.config, call.timestamp_override,
                                                call.clocks[2], call.home)>>)
    /\ UNCHANGED <<appVars, call>>

InitFunctions ==
    /\ RecorderApp_new
    /\ ret = NotReturned
    /\ \/ call \in DetectWindowsCalls
       \/ call \in DetectOutputsCalls
       \/ call \in ClassifyCalls
       \/ call \in BuildCalls
       \/ call \in ResolveCalls
NextFunctions ==
    \/ call_detect_windows
    \/ call_detect_outputs
    \/ call_classify_audio_device
    \/ call_build_command_args
    \/ call_resolve_output_file_with_timestamp
SpecFunctions == InitFunctions /\ [][NextFunctions]_vars

\* The probes next to a recording: the refresh buttons, the per-frame
\* poll_async_tasks, the probe threads, and the Start button.  The recorder,
\* once started, keeps running; nothing polls or stops it.
NextProbeSession ==
    \/ NextProbe
    \/ Start
SpecProbeSession == Init /\ [][NextProbeSession]_vars
\* ------------------------------------------------------------------ claims
ReadersEnded == \A s \in Sources : rpc[s] = "done"

\* C1: when stop_recording runs on a Running session and the interrupt cannot
\* be sent, the child is killed before the reader threads are joined, the
\* session then is Idle and last_error holds the signalling failure.
C1_SignalFailureKills ==
    /\ frame.op = "stop" => child.killed
    /\ last_op = "stop_escalated" =>
          /\ child.killed
          /\ joined = Sources
          /\ status = Idle
          /\ last_error = Some("Failed to signal wf-recorder")

\* C2: once more than LogCap lines have been pushed and neither reader is
\* inside a line, the entry list holds exactly LogCap entries and the buffer
\* is the rendering of exactly those entries, in their order.
C2_LogCapInvariant ==
    (fed > LogCap /\ \A s \in Sources : rpc[s] \in {"read", "done"}) =>
        /\ Len(log_entries) = LogCap
        /\ log_buffer = Rebuild(log_entries)

\* The place in the entry list of the entry a buffer line renders (0: none).
EntryIndex(rendered) ==
    LET at == {k \in DOMAIN log_entries :
                  append_log_line(<< >>, log_entries[k]) = <<rendered>>}
    IN IF at = {} THEN 0 ELSE CHOOSE k \in at : TRUE

\* C3: while the cap has not been exceeded, a stdout line and a stderr line
\* stand in the buffer in the order their entries have in the entry list.
C3_CrossStreamOrder ==
    fed <= LogCap =>
        \A i, j \in DOMAIN log_buffer :
            (i < j /\ log_buffer[i][1] /= log_buffer[j][1]) =>
                EntryIndex(log_buffer[i]) < EntryIndex(log_buffer[j])

\* C4: right after a start_recording that spawned the child, the entry list
\* and the buffer hold no line captured in an earlier session.
C4_StartResetsLog ==
    last_op = "start_spawned" =>
        /\ \A i \in DOMAIN log_entries : log_entries[i].line[1] = child.id
        /\ \A i \in DOMAIN log_buffer : log_buffer[i][2][1] = child.id

\* C5: the control thread is inside a join of finish() only when the child has
\* exited or has been killed.
C5_JoinAfterChildGone ==
    ctl \in {"join_stdout", "join_stderr"} => child.state /= "running"

\* The probe threads of type p that have not ended yet.
InFlight(p) == {c \in tasks : c[1] = p}

\* C6: for each probe type at most one probe thread is in flight, and a
\* refresh request made while that type is loading starts no thread, creates
\* no channel and changes no field.
C6_SingleProbeInFlight ==
    /\ [](\A p \in Probes : Cardinality(InFlight(p)) <= 1)
    /\ [][\A p \in Probes : (request_refresh(p) /\ loading[p]) =>
              UNCHANGED <<probeVars, taskVars, sessionVars, logVars>>]_vars

C6_Witness ==
    /\ last_op = "refresh_ignored"
    /\ \E p \in Probes :
          /\ loading[p]
          /\ InFlight(p) = {<<p, MaxRefresh>>}
          /\ receiver[p] = Some(<<p, MaxRefresh>>)

\* A result sent on channel c is waiting to be received.
Sent(c) == c \in DOMAIN chans /\ chans[c].queue /= << >>

\* C7: the result of a probe is applied at most once; when it is applied the
\* loading flag is cleared, the receiver dropped and the value (or the error)
\* stored; and, frames being drawn for ever, a result that was sent is
\* applied.
C7_ResultAppliedOnce ==
    /\ [](\A c \in Channels : applied[c] <= 1)
    /\ [][\A c \in Channels : applied'[c] /= applied[c] =>
              /\ Sent(c)
              /\ ~loading'[c[1]] /\ receiver'[c[1]] = None
              /\ LET msg == Head(chans[c].queue)
                 IN IF msg.ok
                    THEN available'[c[1]] = msg.value /\ probe_error'[c[1]] = None
                    ELSE probe_error'[c[1]] = Some(msg.value)
                         /\ available'[c[1]] = available[c[1]]]_vars
    /\ \A c \in Channels : Sent(c) ~> (applied[c] = 1)

C7_Witness ==
    /\ \A p \in Probes : ~loading[p]
    /\ applied[<<"outputs", 1>>] = 1
    /\ applied[<<"outputs", MaxRefresh>>] = 1
    /\ available["outputs"] = <<MaxRefresh>>
    /\ \E p \in Probes : probe_error[p] = Some("probe failed")

\* C8: a poll_process on a Running session whose child has not exited (and
\* whose try_wait does not fail) leaves the status with its process handle,
\* start time, output path and reader handles, joins nothing, and leaves
\* last_error and last_recording_summary alone.
C8_PollStillRunningFrame ==
    [][(poll_process /\ is_running(status) /\ child.state = "running"
            /\ last_op' /= "poll_failed")
        => /\ status' = status
           /\ joined' = joined
           /\ ctl' = "ready"
           /\ last_error' = last_error
           /\ last_recording_summary' = last_recording_summary]_vars

C8_Witness ==
    /\ last_op = "poll_running"
    /\ is_running(status)
    /\ child.state = "running"
    /\ joined = {}

\* C9: when poll_process has collected the exit status and finds the output
\* file, both readers have been joined, the session is Idle, the summary is
\* the success summary with the output path, the elapsed time and the exit
\* code or signal, and last_error is what it was.
C9_PollSaved ==
    [][(poll_process_finished /\ last_op' = "poll_saved")
        => /\ joined = Sources /\ ReadersEnded
           /\ status' = Idle
           /\ IsSome(last_recording_summary')
           /\ LET s == last_recording_summary'[1]
              IN /\ s.kind = "Saved to"
                 /\ s.output_file = frame.process.output_file
                 /\ s.seconds = now - frame.process.started_at
                 /\ Len(s.exit_suffix) >= 2
                 /\ IF IsSome(frame.exit.code)
                    THEN s.exit_suffix[2] = frame.exit.code[1]
                    ELSE s.exit_suffix[2] = frame.exit.signal[1]
           /\ last_error' = last_error]_vars

C9_Witness ==
    /\ last_op = "poll_saved"
    /\ status = Idle
    /\ IsSome(last_recording_summary)
    /\ last_recording_summary[1].kind = "Saved to"
    /\ last_recording_summary[1].seconds = MaxTime
    /\ last_error = None

\* The last Min(n, Len(lines)) lines, in their order.
LastLines(lines, n) == SubSeq(lines, Len(lines) - Min(n, Len(lines)) + 1, Len(lines))

\* C10: when poll_process has collected the exit status and finds no output
\* file, the session is Idle, last_error is set, and the failure summary
\* holds the last min(TailLines, n) lines of the n > 0 lines of the log, in
\* their order, or the fixed note when the log is empty; the log is read with
\* both readers joined.
C10_PollNoFile ==
    [][(poll_process_finished /\ last_op' = "poll_no_file")
        => /\ joined = Sources /\ ReadersEnded
           /\ status' = Idle
           /\ IsSome(last_error')
           /\ IsSome(last_recording_summary')
           /\ LET s == last_recording_summary'[1]
              IN /\ s.kind = "no file was created at"
                 /\ IF Len(log_buffer) > 0
                    THEN s.recent = <<"Recent wf-recorder output:",
                                      LastLines(log_buffer, TailLines)>>
                    ELSE s.recent = <<"No wf-recorder output was captured.">>]_vars

C10_Witness ==
    /\ last_op = "poll_no_file"
    /\ Len(log_buffer) > TailLines
    /\ IsSome(last_recording_summary)
    /\ last_recording_summary[1].recent[2] = LastLines(log_buffer, TailLines)
    /\ IsSome(last_error)


\* C11: when try_wait fails inside poll_process, the session stays Running
\* with the same process handle, last_error is the poll failure, no reader is
\* joined, no summary is produced, and the control thread is back at the point
\* where the next frame polls again.
C11_PollErrorKeepsRunning ==
    [][(poll_process /\ last_op' = "poll_failed")
        => /\ is_running(status) /\ status' = status
           /\ last_error' = Some("Failed to poll wf-recorder status")
           /\ joined' = joined
           /\ last_recording_summary' = last_recording_summary
           /\ child' = child
           /\ ctl' = "ready" /\ frame' = NoFrame]_vars

C11_Witness ==
    /\ last_op = "poll_failed"
    /\ is_running(status)
    /\ last_error = Some("Failed to poll wf-recorder status")
    /\ last_recording_summary = None
    /\ joined = {}
    /\ ctl = "ready"


\* C12: force_stop_recording on a Running session returns with the session
\* Idle whether the kill succeeded or failed; a failed kill is stored in
\* last_error and finish() is called all the same; both readers have been
\* joined when the handler returns.  (That the joins return is C5's matter.)
C12_ForceStopEndsIdle ==
    [][/\ (force_stop_recording /\ is_running(status)) =>
             /\ ctl' = "join_stdout" /\ frame'.op = "force"
             /\ frame'.process = status.process
             /\ last_error' = IF last_op' = "force_kill_failed"
                              THEN Some("Failed to terminate wf-recorder")
                              ELSE last_error
       /\ frame.op = "force" =>
             /\ last_error' = last_error
             /\ status' = Idle
       /\ force_stop_recording_finished =>
             /\ joined = Sources /\ ReadersEnded
             /\ status' = Idle /\ ctl' = "ready"]_vars

C12_Witness ==
    /\ last_op = "force_stopped"
    /\ status = Idle
    /\ last_error = Some("Failed to terminate wf-recorder")
    /\ joined = Sources
    /\ ~child.killed


StoppedAndExited == is_running(status) /\ child.signalled /\ child.state = "exited"

\* C14 as stated: once a Running session was signalled and its child has
\* exited, frames being drawn for ever, the session becomes Idle and a
\* recording summary is produced.
C14_GracefulStopCompletes ==
    StoppedAndExited ~>
        (status = Idle /\ ctl = "ready" /\ IsSome(last_recording_summary))

\* C14, amended: ... the session becomes Idle, and a recording summary is
\* produced unless a force stop, or a stop whose signal failed, ended the
\* session before a poll collected the exit status.
C14_GracefulStopCompletesUnlessEnded ==
    StoppedAndExited ~>
        /\ status = Idle
        /\ ctl = "ready"
        /\ \/ IsSome(last_recording_summary) /\ child.state = "reaped"
           \/ last_op \in {"force_stopped", "stop_escalated"}

C14_Witness ==
    /\ child.signalled
    /\ ~child.killed
    /\ child.state = "reaped"
    /\ status = Idle
    /\ last_op = "poll_saved"
    /\ IsSome(last_recording_summary)


\* C15: a start_recording that fails leaves the status as it was (Idle, for
\* the callers there are), starts no reader thread and no process, and
\* stores the error of the step that failed in last_error; when the
\* arguments are invalid no directory is created either.
C15_FailedStartStaysIdle ==
    [][(Start /\ last_op' = "start_failed")
        => /\ status' = Idle
           /\ rpc' = rpc
           /\ child' = child
           /\ last_error' \in {Some("build_command_args error"),
                                Some("Failed to create output directory"),
                                Some("Failed to start wf-recorder")}
           /\ last_error' = Some("build_command_args error") =>
                    dir_created' = dir_created
           /\ last_error' = Some("Failed to create output directory") =>
                    dir_created' = dir_created]_vars

C15_Witness ==
    /\ last_op = "start_failed"
    /\ status = Idle
    /\ last_error = Some("build_command_args error")
    /\ ~dir_created
    /\ child = NoChild
    /\ \A s \in Sources : rpc[s] = "none"


\* The process handles there are: the one inside a Running status and the one
\* a handler has moved out of it.
Handles ==
    (IF is_running(status) THEN {status.process.child} ELSE {})
        \cup (IF frame = NoFrame THEN {} ELSE {frame.process.child})

\* C16: start_recording runs only when the status is Idle, so no start
\* replaces a Running handle; there is never more than one process handle,
\* and it is the handle of the child spawned last.
C16_StartOnlyWhenIdle ==
    /\ [][start_recording => (status = Idle /\ frame = NoFrame)]_vars
    /\ [](~(is_running(status) /\ frame /= NoFrame))
    /\ [](Handles \subseteq {child.id} /\ Cardinality(Handles) <= 1)
    /\ [][is_running(status) /\ is_running(status') =>
             status'.process.child = status.process.child]_vars

C16_Witness ==
    /\ last_op = "start_spawned"
    /\ child.id = MaxSessions
    /\ Handles = {MaxSessions}
    /\ is_running(status)


\* C17: whenever the session is Idle (and no handler is running), the child
\* spawned last, if any, has ended and its exit status has been collected.
C17_IdleMeansReaped ==
    (status = Idle /\ ctl = "ready") => child.state \in {"none", "reaped"}


\* Line a was read before line b (of the same stream): an earlier session, or
\* earlier in the same session.
ReadBefore(a, b) == a[1] < b[1] \/ (a[1] = b[1] /\ a[2] < b[2])

\* C18: two lines of one stream that are both in the entry list stand there in
\* the order they were read, and no line of a stream stands in the rendered
\* buffer before a line of that stream that was read earlier.
C18_StreamOrderKept ==
    /\ \A i, j \in DOMAIN log_entries :
          (i < j /\ log_entries[i].source = log_entries[j].source) =>
              ReadBefore(log_entries[i].line, log_entries[j].line)
    /\ \A i, j \in DOMAIN log_buffer :
          (i < j /\ log_buffer[i][1] = log_buffer[j][1]) =>
              ~ReadBefore(log_buffer[j][2], log_buffer[i][2])

C18_Witness ==
    /\ fed > LogCap
    /\ \E i, j \in DOMAIN log_buffer :
          /\ i < j
          /\ log_buffer[i][1] = log_buffer[j][1]
          /\ ReadBefore(log_buffer[i][2], log_buffer[j][2])
    /\ \E i, j \in DOMAIN log_entries :
          /\ i < j
          /\ log_entries[i].source = log_entries[j].source
    /\ \E i \in DOMAIN log_buffer : log_buffer[i][1] /= log_buffer[1][1]


\* The entry list changes by a reader's push of entry e followed by the trim.
PushedAndTrimmed(e) == log_entries' = LastLines(Append(log_entries, e), LogCap)

\* C19 as stated: the entry list never holds more than LogCap entries and is
\* always the most recent entries of all that were appended, in append
\* order: a reader's push appends one entry and drops only the oldest entries
\* beyond the cap, and nothing else changes the list.
C19_ListIsRecentSuffix ==
    /\ [](Len(log_entries) <= LogCap)
    /\ [][\A s \in Sources :
             ReaderPush(s) => PushedAndTrimmed(rlocal'[s].new_entry[1])]_vars
    /\ [][log_entries' /= log_entries => \E s \in Sources : ReaderPush(s)]_vars

\* C19, amended: ... of all entries appended since the log was last cleared:
\* nothing else changes the list but the "Clear log" button, which empties it.
C19_ListIsRecentSuffixSinceClear ==
    /\ [](Len(log_entries) <= LogCap)
    /\ [][\A s \in Sources :
             ReaderPush(s) => PushedAndTrimmed(rlocal'[s].new_entry[1])]_vars
    /\ [][log_entries' /= log_entries =>
             \/ clear_log_entries /\ log_entries' = << >>
             \/ \E s \in Sources : ReaderPush(s)]_vars

C19_Witness ==
    /\ fed > LogCap
    /\ Len(log_entries) = LogCap
    /\ \E s \in Sources :
          /\ rpc[s] = "text"
          /\ IsSome(rlocal[s].snapshot)
          /\ log_entries[LogCap] = rlocal[s].new_entry[1]
          /\ log_entries[1].line[2] + log_entries[LogCap].line[2] > LogCap

\* Neither reader thread is running.
NoReaderRuns == \A s \in Sources : rpc[s] \in {"none", "done"}

\* C20: with both readers finished, a tick of poll_async_tasks ends with
\* log_display equal to the rendered buffer (so the first one does); and a
\* tick that finds the flag false leaves log_display as it was.
C20_DirtyFlagLosesNothing ==
    /\ [][(NoReaderRuns /\ (poll_async_tasks_copy \/ (poll_async_tasks /\ ~log_dirty)))
             => (ctl' = "ready" /\ log_display' = log_buffer')]_vars
    /\ [][(poll_async_tasks /\ ~log_dirty)
             => (ctl' = "ready" /\ log_display' = log_display)]_vars
    /\ []((NoReaderRuns /\ ctl = "ready" /\ ~log_dirty) => log_display = log_buffer)

C20_Witness ==
    /\ ReadersEnded
    /\ last_op = "poll_async_tasks"
    /\ ctl = "ready"
    /\ ~log_dirty
    /\ Len(log_buffer) >= LogCap
    /\ log_display = log_buffer

\* The probe thread of type p has ended and sent nothing on the stored channel.
EndedSilent(p) ==
    /\ loading[p]
    /\ IsSome(receiver[p])
    /\ receiver[p][1] \notin tasks
    /\ chans[receiver[p][1]].queue = << >>

\* C21: a poll_async_tasks that finds the probe thread of a type ended with
\* nothing sent clears the loading flag, drops the receiver (the channel is
\* gone), stores the fixed "disconnected unexpectedly" message of that type
\* as its error, and leaves the choice list as it was.
C21_DisconnectIsFailure ==
    [][\A p \in Probes : (poll_async_tasks /\ EndedSilent(p)) =>
          /\ ~loading'[p]
          /\ receiver'[p] = None
          /\ receiver[p][1] \notin DOMAIN chans'
          /\ probe_error'[p] = Some(DisconnectedMessage(p))
          /\ available'[p] = available[p]]_vars

C21_Witness ==
    /\ last_op = "poll_async_tasks"
    /\ \E p \in Probes :
          /\ nreq[p] = MaxRefresh
          /\ applied[<<p, 1>>] = 1
          /\ applied[<<p, MaxRefresh>>] = 0
          /\ <<p, MaxRefresh>> \notin DOMAIN chans
          /\ ~loading[p]
          /\ receiver[p] = None
          /\ probe_error[p] = Some(DisconnectedMessage(p))
          /\ available[p] = <<1>>

\* The probe thread of type p is still running: nothing sent, sender alive.
Pending(p) ==
    /\ loading[p]
    /\ IsSome(receiver[p])
    /\ receiver[p][1] \in tasks

\* C22: a poll_async_tasks made while the probe thread of a type is still
\* running leaves that type loading, keeps its receiver and the channel, and
\* leaves its error and its choice list as they were.
C22_PollPendingFrame ==
    [][\A p \in Probes : (poll_async_tasks /\ Pending(p)) =>
          /\ loading'[p]
          /\ receiver'[p] = receiver[p]
          /\ receiver[p][1] \in DOMAIN chans'
          /\ chans'[receiver[p][1]] = chans[receiver[p][1]]
          /\ probe_error'[p] = probe_error[p]
          /\ available'[p] = available[p]]_vars

C22_Witness ==
    /\ last_op = "poll_async_tasks"
    /\ \E p \in Probes :
          /\ Pending(p)
          /\ receiver[p] = Some(<<p, MaxRefresh>>)
          /\ chans[<<p, MaxRefresh>>] = [queue |-> << >>, sender |-> TRUE]
          /\ available[p] = <<1>>
          /\ probe_error[p] = None
          /\ \E q \in Probes \ {p} : ~loading[q] /\ IsSome(probe_error[q])

\* The fields of probe type q, and the messages in its channels, stay as
\* they are.
ProbeUntouched(q) ==
    /\ loading'[q] = loading[q]
    /\ probe_error'[q] = probe_error[q]
    /\ receiver'[q] = receiver[q]
    /\ available'[q] = available[q]
    /\ \A c \in DOMAIN chans : c[1] = q => (c \in DOMAIN chans' /\ chans'[c] = chans[c])
    /\ \A c \in DOMAIN chans' : c[1] = q => c \in DOMAIN chans

\* The probe thread of type q has ended (with or without a result) and the
\* controller has not drained its channel yet.
Drainable(q) == loading[q] /\ IsSome(receiver[q]) /\ receiver[q][1] \notin tasks

\* C23: a refresh request for one probe type leaves the fields and channels
\* of the other two types as they were; a poll_async_tasks changes the fields
\* of a type only if that type itself has an ended thread to drain; and
\* neither changes the session status with its process handle, the child,
\* last_error or last_recording_summary.
C23_ProbesIsolated ==
    /\ [][\A p \in Probes : request_refresh(p) =>
              /\ \A q \in Probes \ {p} : ProbeUntouched(q)
              /\ UNCHANGED <<sessionVars, child>>]_vars
    /\ [][poll_async_tasks =>
              /\ \A q \in Probes : ~Drainable(q) => ProbeUntouched(q)
              /\ UNCHANGED <<sessionVars, child>>]_vars

\* A recording runs, one type has been refreshed again after a failure was
\* drained for it, a second type has had a success and a third a disconnect.
C23_Witness ==
    /\ is_running(status)
    /\ child.state = "running"
    /\ last_op = "poll_async_tasks"
    /\ \E p \in Probes :
          /\ loading[p] /\ nreq[p] = MaxRefresh /\ applied[<<p, 1>>] = 1
          /\ available[p] = << >>
          /\ \E q \in Probes \ {p} :
                /\ ~loading[q] /\ available[q] = <<1>> /\ probe_error[q] = None
                /\ \E r \in Probes \ {p, q} :
                      /\ ~loading[r]
                      /\ probe_error[r] = Some(DisconnectedMessage(r))

\* C24: when poll_async_tasks drains an ended probe thread, a successful
\* result makes the choice list of that type exactly the received list (so
\* nothing of the previous list is left but what the new list holds) and
\* clears the type's error; a failure, or a thread that sent nothing, leaves
\* the previous list as it was.
C24_ListReplacedWholesale ==
    [][\A p \in Probes : (poll_async_tasks /\ Drainable(p)) =>
          LET queue == chans[receiver[p][1]].queue
          IN IF queue /= << >> /\ Head(queue).ok
             THEN /\ available'[p] = Head(queue).value
                  /\ probe_error'[p] = None
             ELSE available'[p] = available[p]]_vars

\* Two window refreshes were drained with success, and the list now holds
\* one window.
C24_Witness ==
    /\ last_op = "poll_async_tasks"
    /\ applied[<<"windows", 1>>] = 1
    /\ applied[<<"windows", MaxRefresh>>] = 1
    /\ ~loading["windows"]
    /\ probe_error["windows"] = None
    /\ Len(available["windows"]) = 1

\* C26: the available window list never holds two entries with the same id
\* and the same geometry (it is empty until a successful window refresh has
\* been drained, and then holds what detect_windows returned).
C26_WindowsDeduplicated ==
    \A i, j \in 1..Len(available["windows"]) :
        i /= j =>
            <<available["windows"][i].id, available["windows"][i].geometry>>
                /= <<available["windows"][j].id, available["windows"][j].geometry>>

\* C25: detect_windows runs swaymsg first and runs hyprctl only when swaymsg
\* failed or yielded no window; it returns swaymsg's windows when there are
\* some, else hyprctl's windows when there are some (a success: no message of
\* swaymsg is carried), else an error made of both reasons, swaymsg's first.
C25_WindowFallback ==
    (call.fn = "detect_windows" /\ ret /= NotReturned) =>
        LET a == detect_sway_windows(call.sway)
            b == detect_hypr_windows(call.hypr)
            a_some == a.ok /\ Len(a.value) > 0
            b_some == b.ok /\ Len(b.value) > 0
            a_reason == IF a.ok THEN "swaymsg returned no windows" ELSE a.value
            b_reason == IF b.ok THEN "hyprctl returned no windows" ELSE b.value
        IN /\ ret.value.ran[1] = "swaymsg"
           /\ ret.value.ran = (IF a_some THEN <<"swaymsg">> ELSE <<"swaymsg", "hyprctl">>)
           /\ a_some => ret.value.ret = Ok(a.value)
           /\ (~a_some /\ b_some) => ret.value.ret = Ok(b.value)
           /\ (~a_some /\ ~b_some) =>
                 /\ ~ret.value.ret.ok
                 /\ ret.value.ret.value = <<a_reason, b_reason>>

\* swaymsg answered with a tree without windows, hyprctl with one window, and
\* that window came back.
C25_Witness ==
    /\ call.fn = "detect_windows"
    /\ ret /= NotReturned
    /\ call.sway.tag = "tree"
    /\ detect_sway_windows(call.sway) = Ok(<< >>)
    /\ Len(call.sway.nodes) = MaxReported
    /\ ret.value.ran = <<"swaymsg", "hyprctl">>
    /\ ret.value.ret.ok
    /\ Len(ret.value.ret.value) = 1
    /\ ret.value.ret.value[1].id = "0x1"

\* C27: the list detect_outputs returns is sorted by label, in non-decreasing
\* order, and holds no two entries with the same value.
C27_OutputsSortedUnique ==
    (call.fn = "detect_outputs" /\ ret /= NotReturned /\ ret.value.ok) =>
        LET outputs == ret.value.value
        IN /\ \A i \in 1..(Len(outputs) - 1) :
                 ~StrLess(outputs[i + 1].label, outputs[i].label)
           /\ \A i, j \in 1..Len(outputs) :
                 i /= j => outputs[i].value /= outputs[j].value

\* The name or the description holds the keyword, in whatever case.
Mentions(device, keyword) ==
    \/ contains(to_ascii_lowercase(device.name), keyword)
    \/ contains(to_ascii_lowercase(device.description), keyword)

\* C28: an audio device is a Speaker if its name or its description holds
\* "monitor" or "speaker" (case ignored); else a Microphone if its name or
\* its description holds "microphone" or "input"; else Other.
C28_AudioClassification ==
    (call.fn = "classify_audio_device" /\ ret /= NotReturned) =>
        ret.value = IF Mentions(call, monitor) \/ Mentions(call, speaker)
                    THEN "Speaker"
                    ELSE IF Mentions(call, microphone) \/ Mentions(call, input)
                         THEN "Microphone"
                         ELSE "Other"

\* The text is empty or holds nothing but blanks.
Blank(s) == \A i \in 1..Len(s) : s[i] = " "

\* C29: with capture mode Window and a blank selected window geometry, or
\* capture mode Area and a blank area geometry, build_command_args returns an
\* error (so neither an argument list nor an output path), whatever the
\* template, the audio mode and the other fields are.
C29_BlankGeometryRejected ==
    (/\ call.fn = "build_command_args"
     /\ ret /= NotReturned
     /\ \/ call.config.capture_mode = "Window" /\ Blank(call.config.selected_window_geometry)
        \/ call.config.capture_mode = "Area" /\ Blank(call.config.area_geometry))
        => (~ret.value.ok /\ Len(ret.value.value) = 1)

\* Window mode, a geometry of one blank, an area geometry that is set and a
\* template that would not resolve: the window error came back.
C29_Witness ==
    /\ call.fn = "build_command_args"
    /\ ret /= NotReturned
    /\ call.config.capture_mode = "Window"
    /\ call.config.selected_window_geometry = <<" ">>
    /\ call.config.area_geometry /= << >>
    /\ call.config.file_template = <<"$", "x", "/", "$", "t", "i", "m", "e", "s", "t", "a", "m", "p">>
    /\ ret.value = Err(<<"Select a window from the list before starting the recording.">>)

\* Every "$" of the template starts $timestamp or $format.
OnlyKnownPlaceholders(template) ==
    \A i \in 1..Len(template) :
        template[i] = "$" =>
            \/ starts_with(SubSeq(template, i, Len(template)), <<"$", "t", "i", "m", "e", "s", "t", "a", "m", "p">>)
            \/ starts_with(SubSeq(template, i, Len(template)), <<"$", "f", "o", "r", "m", "a", "t">>)

\* C30: for a template whose only placeholders are $timestamp and $format,
\* resolving the output path twice with the same configuration and the same
\* timestamp override gives the same result both times, whatever the clock
\* shows at each call; it is a path unless the template is blank.
C30_ResolveRepeatable ==
    (/\ call.fn = "resolve_output_file_with_timestamp"
     /\ ret /= NotReturned
     /\ IsSome(call.timestamp_override)
     /\ OnlyKnownPlaceholders(call.config.file_template))
        => /\ ret.value[1].ok = ret.value[2].ok
           /\ ret.value[1].value = ret.value[2].value
           /\ ~Blank(call.config.file_template) => ret.value[1].ok

\* The default template resolved twice with the override "T" while the clock
\* moved on, HOME being set: both calls gave the same path under HOME.
C30_Witness ==
    /\ call.fn = "resolve_output_file_with_timestamp"
    /\ ret /= NotReturned
    /\ call.config.file_template = Default.file_template
    /\ call.config.file_format = << >>
    /\ call.timestamp_override = Some(<<"T">>)
    /\ call.clocks[1] /= call.clocks[2]
    /\ IsSome(call.home)
    /\ ret.value[1] = ret.value[2]
    /\ ret.value[1] = Ok(call.home[1] \o <<"/", "V", "i", "d", "e", "o", "s", "/", "w", "f", "r", "e", "c", "o", "r", "d", "i", "n", "g", "/", "T", ".", "m", "p", "4">>)

\* The "$" at index i (from 1) of the template starts no known placeholder.
UnknownPlaceholderAt(template, i) ==
    /\ template[i] = "$"
    /\ ~starts_with(SubSeq(template, i, Len(template)), <<"$", "t", "i", "m", "e", "s", "t", "a", "m", "p">>)
    /\ ~starts_with(SubSeq(template, i, Len(template)), <<"$", "f", "o", "r", "m", "a", "t">>)
\* The capture target of the configuration passes build_command_args.
TargetGiven(config) ==
    /\ config.capture_mode = "Window" => ~Blank(config.selected_window_geometry)
    /\ config.capture_mode = "Area" => ~Blank(config.area_geometry)

\* C31: for a template with an unknown placeholder build_command_args fails,
\* and, the capture target being given, the error is the placeholder error and
\* the position in it is the position (from 0) of the first unknown
\* placeholder in the template, also when $timestamp or $format precedes it.
C31_UnknownPlaceholderPosition ==
    (/\ call.fn = "build_command_args"
     /\ ret /= NotReturned
     /\ ~OnlyKnownPlaceholders(call.config.file_template))
        => /\ ~ret.value.ok
           /\ TargetGiven(call.config) =>
                \E i \in 1..Len(call.config.file_template) :
                    /\ UnknownPlaceholderAt(call.config.file_template, i)
                    /\ \A j \in 1..(i - 1) :
                           ~UnknownPlaceholderAt(call.config.file_template, j)
                    /\ ret.value.value =
                           <<"Unknown placeholder starting at position", i - 1>>

\* How often the argument occurs in the list.
Count(args, arg) == Cardinality({i \in 1..Len(args) : args[i] = arg})
\* build_command_args returned an argument list for mode Both with a speaker
\* and a microphone selected.
BuiltForBoth ==
    /\ call.fn = "build_command_args"
    /\ ret /= NotReturned
    /\ ret.value.ok
    /\ call.config.audio_mode = "Both"
    /\ ~Blank(call.config.selected_speaker_device)
    /\ ~Blank(call.config.selected_microphone_device)
\* The list starts with the speaker entry and then the microphone entry.
SpeakerThenMicrophone(args) ==
    /\ Len(args) >= 2
    /\ args[1] = Flag.audio \o <<"=">> \o trim(call.config.selected_speaker_device)
    /\ args[2] = Flag.audio \o <<"=">> \o trim(call.config.selected_microphone_device)

\* C32 as stated: with mode Both, a speaker S and a microphone M selected, the
\* list starts with --audio=S, --audio=M, and each of the flags
\* --audio-backend, --audio-codec, --audio-codec-param, --sample-rate and
\* --sample-format occurs at most once, behind the two entries.
C32_AudioFlagsOnce ==
    BuiltForBoth =>
        /\ SpeakerThenMicrophone(ret.value.value[1])
        /\ \A flag \in {Flag.audio_backend, Flag.audio_codec, Flag.audio_codec_param,
                        Flag.sample_rate, Flag.sample_format} :
               /\ Count(ret.value.value[1], flag) <= 1
               /\ \A i \in 1..Len(ret.value.value[1]) :
                      ret.value.value[1][i] = flag => i > 2

\* C32 amended: with mode Both, a speaker S and a microphone M selected, the
\* list starts with --audio=S, --audio=M; behind them --audio-backend,
\* --audio-codec, --sample-rate and --sample-format occur once each if the
\* field is not blank and else not at all, and --audio-codec-param occurs once
\* for every codec parameter whose key or value is not blank.
C32_AudioFlagsOncePerSetting ==
    BuiltForBoth =>
        LET args == ret.value.value[1]
            config == call.config
            Once(flag, field) == Count(args, flag) = IF Blank(field) THEN 0 ELSE 1
        IN /\ SpeakerThenMicrophone(args)
           /\ Once(Flag.audio_backend, config.audio_backend)
           /\ Once(Flag.audio_codec, config.audio_codec)
           /\ Once(Flag.sample_rate, config.sample_rate)
           /\ Once(Flag.sample_format, config.sample_format)
           /\ Count(args, Flag.audio_codec_param) =
                  Cardinality({i \in 1..Len(config.audio_codec_params) :
                                  \/ ~Blank(config.audio_codec_params[i].key)
                                  \/ ~Blank(config.audio_codec_params[i].value)})
           /\ \A i \in 1..2, flag \in {Flag.audio_backend, Flag.audio_codec,
                                       Flag.audio_codec_param, Flag.sample_rate,
                                       Flag.sample_format} : args[i] /= flag

\* Mode Both with speaker S and microphone M, every audio setting made and two
\* codec parameters: the list starts with the two entries, the backend and
\* the codec once, and the two parameters.
C32_Witness ==
    /\ BuiltForBoth
    /\ call.config.audio_codec_params =
           <<[key |-> <<"k">>, value |-> <<"v">>], [key |-> <<"q">>, value |-> << >>]>>
    /\ SubSeq(ret.value.value[1], 1, 10) =
           <<Flag.audio \o <<"=", "S">>, Flag.audio \o <<"=", "M">>,
             Flag.audio_backend, <<"p", "u", "l", "s", "e">>,
             Flag.audio_codec, <<"a", "a", "c">>,
             Flag.audio_codec_param, <<"k", "=", "v">>,
             Flag.audio_codec_param, <<"q">>>>

\* The audio entry for a selected device and the manual override: the
\* selected device if it is not blank, else the override if it is not blank,
\* else the bare flag.
AudioEntry(selected, manual) ==
    IF ~Blank(selected) THEN Flag.audio \o <<"=">> \o trim(selected)
    ELSE IF ~Blank(manual) THEN Flag.audio \o <<"=">> \o trim(manual)
    ELSE Flag.audio

\* C33: every audio entry that build_command_args emits names the selected
\* device of its kind if there is one, else the manual override device if
\* there is one, else it is the bare --audio; so for the one entry of System
\* (speaker) and of Microphone, and for both entries of Both.
C33_DeviceResolution ==
    (/\ call.fn = "build_command_args"
     /\ ret /= NotReturned
     /\ ret.value.ok
     /\ call.config.audio_mode /= "None")
        => LET args == ret.value.value[1]
               config == call.config
               speaker_entry ==
                   AudioEntry(config.selected_speaker_device, config.audio_device)
               microphone_entry ==
                   AudioEntry(config.selected_microphone_device, config.audio_device)
           IN CASE config.audio_mode = "System" -> args[1] = speaker_entry
                [] config.audio_mode = "Microphone" -> args[1] = microphone_entry
                [] OTHER -> args[1] = speaker_entry /\ args[2] = microphone_entry

\* The block an argument opens: 1 audio, 2 video, 3 capture target, 4 output
\* file, 5 switches; 0 for an argument that is the value of the one before.
Block(arg) ==
    IF \/ starts_with(arg, Flag.audio)
       \/ arg \in {Flag.sample_rate, Flag.sample_format} THEN 1
    ELSE IF arg \in {Flag.codec, Flag.codec_param, Flag.framerate, Flag.bframes,
                     Flag.buffrate, Flag.device, Flag.pixel_format, Flag.muxer,
                     Flag.filter} THEN 2
    ELSE IF arg \in {Flag.output, Flag.geometry} THEN 3
    ELSE IF arg = Flag.file THEN 4
    ELSE IF arg \in {Flag.no_dmabuf, Flag.no_damage, Flag.log, Flag.overwrite} THEN 5
    ELSE 0
\* The flags of the switches that are on, in the order of the code.
SwitchesOn(config) ==
    LET on == <<config.no_dmabuf, config.no_damage, config.log_enabled, config.overwrite>>
        flags == <<Flag.no_dmabuf, Flag.no_damage, Flag.log, Flag.overwrite>>
        F[i \in 0..4] ==
            IF i = 0 THEN << >>
            ELSE IF on[i] THEN Append(F[i - 1], flags[i]) ELSE F[i - 1]
    IN F[4]

\* C34: in every argument list that is built the blocks come in the order
\* audio, video, capture target, output file, switches: --file occurs once,
\* behind every audio, video and capture target argument, its value is the
\* output path returned, and behind that come exactly the flags --no-dmabuf,
\* --no-damage, --log, --overwrite whose switch is on, in this order.
C34_BlockOrder ==
    (call.fn = "build_command_args" /\ ret /= NotReturned /\ ret.value.ok) =>
        LET args == ret.value.value[1]
            output_file == ret.value.value[2]
        IN /\ Count(args, Flag.file) = 1
           /\ \A i, j \in 1..Len(args) :
                  (i < j /\ Block(args[i]) /= 0 /\ Block(args[j]) /= 0)
                      => Block(args[i]) <= Block(args[j])
           /\ \E f \in 1..(Len(args) - 1) :
                  /\ args[f] = Flag.file
                  /\ args[f + 1] = output_file
                  /\ SubSeq(args, f + 2, Len(args)) = SwitchesOn(call.config)

\* Window mode with audio, every video setting made and the switches
\* --no-damage and --overwrite on: the list holds an audio entry, --codec,
\* --geometry, then --file with the path, then the two flags.
C34_Witness ==
    /\ call.fn = "build_command_args"
    /\ ret /= NotReturned
    /\ ret.value.ok
    /\ call.config.capture_mode = "Window"
    /\ call.config.filter = <<"f">>
    /\ LET args == ret.value.value[1]
       IN /\ args[1] = Flag.audio
          /\ Count(args, Flag.codec) = 1
          /\ Count(args, Flag.geometry) = 1
          /\ Len(args) > 4
          /\ SubSeq(args, Len(args) - 3, Len(args)) =
                 <<Flag.file, ret.value.value[2], Flag.no_damage, Flag.overwrite>>

\* The timestamp that the call substitutes.
TimestampUsed ==
    IF IsSome(call.timestamp_override) THEN call.timestamp_override[1] ELSE call.clock

AudioEntries(args) ==
    Cardinality({i \in 1..Len(args) :
                    \/ args[i] = Flag.audio
                    \/ starts_with(args[i], Flag.audio \o <<"=">>)})

\* C36: a built argument list holds no audio entry for audio mode None, one
\* for System, one for Microphone and two for Both; for mode None it holds
\* none of --audio-backend, --audio-codec, --audio-codec-param, --sample-rate
\* and --sample-format either, whatever those fields are.
C36_AudioEntryCount ==
    (call.fn = "build_command_args" /\ ret /= NotReturned /\ ret.value.ok) =>
        LET args == ret.value.value[1]
            mode == call.config.audio_mode
        IN /\ AudioEntries(args) = CASE mode = "None" -> 0
                                     [] mode = "System" -> 1
                                     [] mode = "Microphone" -> 1
                                     [] mode = "Both" -> 2
           /\ mode = "None" =>
                  \A flag \in {Flag.audio_backend, Flag.audio_codec,
                               Flag.audio_codec_param, Flag.sample_rate,
                               Flag.sample_format} : Count(args, flag) = 0

\* Mode None with a speaker, a microphone and a manual device chosen, every
\* audio setting made and two codec parameters: the list starts with --codec.
C36_Witness ==
    /\ call.fn = "build_command_args"
    /\ ret /= NotReturned
    /\ ret.value.ok
    /\ call.config.audio_mode = "None"
    /\ call.config.selected_speaker_device = <<"S">>
    /\ call.config.selected_microphone_device = <<"M">>
    /\ call.config.audio_device = <<"D">>
    /\ call.config.audio_backend = <<"p", "u", "l", "s", "e">>
    /\ Len(call.config.audio_codec_params) = 2
    /\ ret.value.value[1][1] = Flag.codec

\* C37: for each probe type the loading flag is set exactly when a receiver
\* is stored; a refresh request that is not ignored sets the flag, stores a
\* receiver and clears the error of its type; a poll_async_tasks that finds
\* the thread of a type ended (with a list, an error, or nothing sent)
\* clears the flag and drops the receiver.
C37_LoadingIffReceiver ==
    /\ [](\A p \in Probes : loading[p] <=> IsSome(receiver[p]))
    /\ [][\A p \in Probes :
            /\ (request_refresh(p) /\ ~loading[p]) =>
                  /\ loading'[p]
                  /\ IsSome(receiver'[p])
                  /\ probe_error'[p] = None
            /\ (poll_async_tasks /\ Drainable(p)) =>
                  /\ ~loading'[p]
                  /\ receiver'[p] = None]_vars

\* Outputs are loading with a receiver stored after an earlier refresh of
\* them was drained, the window refresh ended with nothing sent and was
\* drained, and the audio refresh was drained with its result; neither of the
\* two has a flag or a receiver.
C37_Witness ==
    /\ loading["outputs"] /\ receiver["outputs"] = Some(<<"outputs", 2>>)
    /\ probe_error["outputs"] = None
    /\ <<"outputs", 1>> \notin DOMAIN chans
    /\ ~loading["windows"] /\ receiver["windows"] = None
    /\ probe_error["windows"] = Some(DisconnectedMessage("windows"))
    /\ ~loading["audio_devices"] /\ receiver["audio_devices"] = None
    /\ applied[<<"audio_devices", 1>>] = 1

\* C38: whenever the session is Idle and no handler is running, no reader
\* thread of an earlier session is running (each has ended, or none was ever
\* started); every handler that leaves a Running session Idle (poll_process
\* on exit, stop_recording on a failed signal, force_stop_recording) returns
\* with both readers joined and ended.
C38_IdleMeansReadersJoined ==
    /\ []((status = Idle /\ ctl = "ready") =>
             \A s \in Sources : rpc[s] \in {"none", "done"})
    /\ [][(frame /= NoFrame /\ ctl' = "ready" /\ status' = Idle) =>
             /\ joined' = Sources
             /\ \A s \in Sources : rpc'[s] = "done"]_vars

\* The second session was stopped, the signal failed, and stop_recording has
\* returned: the session is Idle, both readers have been joined and have
\* ended, and the log holds entries they wrote.
C38_Witness ==
    /\ status = Idle
    /\ ctl = "ready"
    /\ last_op = "stop_escalated"
    /\ child.id = MaxSessions
    /\ joined = Sources
    /\ \A s \in Sources : rpc[s] = "done"
    /\ log_entries /= << >>

\* C39: stop_recording, force_stop_recording and poll_process called while
\* the session is Idle do nothing: the session stays Idle, the handler has
\* returned, the child spawned last gets no signal and is not killed or
\* reaped, no reader is joined, and last_error and last_recording_summary
\* stay as they were.
C39_IdleHandlersNoOp ==
    [][((stop_recording \/ force_stop_recording \/ poll_process) /\ status = Idle)
        => /\ status' = Idle
           /\ ctl' = "ready" /\ frame' = frame
           /\ child' = child
           /\ joined' = joined
           /\ last_error' = last_error
           /\ last_recording_summary' = last_recording_summary]_vars

\* A session ended without a file, which left a summary and an error; then
\* force_stop_recording was called on the Idle session, and both are there.
C39_Witness ==
    /\ last_op = "force_idle"
    /\ status = Idle
    /\ ctl = "ready"
    /\ child.state = "reaped" /\ ~child.killed /\ ~child.signalled
    /\ last_error = Some("Recording did not produce an output file.")
    /\ IsSome(last_recording_summary)

\* C40: whenever no reader stands between its update of the entry list and
\* its update of the buffer, the buffer holds at most LogCap lines and no two
\* of its lines render the same entry.
C40_BufferBoundedNoDuplicate ==
    (\A s \in Sources : rpc[s] /= "text") =>
        /\ Len(log_buffer) <= LogCap
        /\ \A i, j \in DOMAIN log_buffer : i < j => log_buffer[i] /= log_buffer[j]

====
